---- MODULE Spec2Model ----
(***************************************************************************)
(* Azure VM manager with persistent disk (src/azure/azure_vm_manager.py).  *)
(*                                                                         *)
(* One command-line invocation at a time runs against one project: main()  *)
(* builds an AzureVMManager (which loads the state file) and dispatches    *)
(* one command.  The provider (Azure Resource Manager) is the environment: *)
(* it holds the resources, and it finishes long-running operations on its  *)
(* own, whether or not the process that submitted them is still alive.     *)
(***************************************************************************)
EXTENDS Integers, Sequences, FiniteSets, TLC

VARIABLES
    prov,          \* provider: which resources of the resource group exist
    ops,           \* provider: status of the long-running operation of each kind
    vmSpec,        \* provider: the vm_params of the last accepted VM create
    file,          \* var/state/<project>_state.json
    hostFile,      \* generated/host: the invocation that last wrote it, 0 for none
    run,           \* number of invocations started (the wall clock's coarse part)
    pc,            \* position of the running invocation
    cmd,           \* args.action of the running invocation
    config,        \* VMConfig of the running invocation
    state,         \* self.state
    loc,           \* locals of the running handler
    calls,         \* provider calls issued by the running invocation, in order
    logs,          \* what the running invocation logged or printed (kinds)
    exitCode,      \* return value of main(), -1 while running
    startFile,     \* the state file as the invocation found it
    external,      \* somebody other than the manager changed a resource or the file
    hist,          \* what earlier invocations of this project achieved
    other,         \* a second process of the same project that is not scheduled now
    fn             \* a function of the program applied away from any invocation

vars == <<prov, ops, vmSpec, file, hostFile, run, pc, cmd, config, state, loc,
          calls, logs, exitCode, startFile, external, hist, other, fn>>

(***************************************************************************)
(* Bounds                                                                  *)
(***************************************************************************)
MaxRuns == 3        \* invocations in one behaviour
MaxPolls == 2       \* iterations of the address polling loop before its timeout

(***************************************************************************)
(* Values                                                                  *)
(***************************************************************************)
None == "None"                     \* Python None in an Optional[str] field
NoState == [tag |-> "None"]        \* self.state is None
NoFile == [tag |-> "absent"]       \* the state file does not exist
Corrupt == [tag |-> "corrupt"]     \* the state file does not parse into VMState

SubscriptionId == "sub"
ProjectName == <<"d", "e", "_", "m", "o">>
\* VMConfig as __post_init__ resolves it: the project name and the credentials
\* come from config.yaml and .env.secret, which may hold an empty value
ValidConfig ==
    [project_name |-> ProjectName, admin_username |-> "azureuser",
     admin_password |-> "TestPass123!"]
Configs ==
    {ValidConfig,
     [ValidConfig EXCEPT !.admin_username = ""],
     [ValidConfig EXCEPT !.admin_password = ""],
     [ValidConfig EXCEPT !.project_name = <<>>]}
Commands == {"create", "destroy-vm", "recreate", "info", "list-resources", "destroy-all"}
\* a network stack built with the security group first
NetKindsSecurityGroupFirst == <<"nsg", "vnet", "pip", "nic">>

\* the resources of create_network_infrastructure, in the order it creates them
NetKinds == <<"vnet", "nsg", "pip", "nic">>
OpKinds == {"vnet", "nsg", "pip", "nic", "vm_create", "vm_delete", "rg_delete",
            "extension"}

RECURSIVE Join(_)
Join(s) == IF s = <<>> THEN "" ELSE Head(s) \o Join(Tail(s))

\* str.replace(old, new) on a string given as its characters
Replace(s, old, new) == [i \in 1..Len(s) |-> IF s[i] = old THEN new ELSE s[i]]

\* names in which the public address is called as the interface is
_get_resource_namesSharingSuffix(project_name) ==
    LET base_name == Join(Replace(project_name, "_", "-"))
    IN  [resource_group |-> base_name \o "-rg",
         vm_name        |-> base_name \o "-vm",
         disk_name      |-> base_name \o "-disk",
         nic_name       |-> base_name \o "-nic",
         pip_name       |-> base_name \o "-nic",
         nsg_name       |-> base_name \o "-nsg",
         vnet_name      |-> base_name \o "-vnet",
         subnet_name    |-> "default"]

_get_resource_names(project_name) ==
    LET base_name == Join(Replace(project_name, "_", "-"))
    IN  [resource_group |-> base_name \o "-rg",
         vm_name        |-> base_name \o "-vm",
         disk_name      |-> base_name \o "-disk",
         nic_name       |-> base_name \o "-nic",
         pip_name       |-> base_name \o "-pip",
         nsg_name       |-> base_name \o "-nsg",
         vnet_name      |-> base_name \o "-vnet",
         subnet_name    |-> "default"]

\* the id the provider gives a resource (result.id)
ResourceId(rg, provider, type, name) ==
    "/subscriptions/" \o SubscriptionId \o "/resourceGroups/" \o rg
        \o "/providers/" \o provider \o "/" \o type \o "/" \o name

\* create_vm's own rendering of the disk id
DiskResourceId(rg_name, disk_name) ==
    "/subscriptions/" \o SubscriptionId \o "/resourceGroups/" \o rg_name
        \o "/providers/Microsoft.Compute/disks/" \o disk_name

\* datetime.now(): strictly later at every reading; the invocation number and the
\* reading's rank inside the invocation
Now(r, k) == 2 * r + k

VMState(vm_name, resource_group, disk_name, disk_resource_id, network_interface_id, public_ip_id, created_at, vm_resource_id, vm_exists) ==
    [vm_name |-> vm_name, resource_group |-> resource_group, disk_name |-> disk_name,
     disk_resource_id |-> disk_resource_id,
     network_interface_id |-> network_interface_id, public_ip_id |-> public_ip_id,
     created_at |-> created_at, vm_resource_id |-> vm_resource_id,
     vm_exists |-> vm_exists]

\* json.dump(asdict(state)) and VMState(**json.load(f)): None is written as null
JsonNull == "null"
json_dump(s) == [s EXCEPT !.vm_resource_id = IF @ = None THEN JsonNull ELSE @]
json_load(d) == [d EXCEPT !.vm_resource_id = IF @ = JsonNull THEN None ELSE @]

\* the state file of another project, as that project's create wrote it: the
\* operator may put a copy of it in the place of this project's state file
OtherProject == <<"o", "l", "d">>
OtherRecord ==
    LET names == _get_resource_names(OtherProject)
        rg == names.resource_group
    IN  json_dump(VMState(names.vm_name, rg, names.disk_name,
                          DiskResourceId(rg, names.disk_name),
                          ResourceId(rg, "Microsoft.Network", "networkInterfaces",
                                     names.nic_name),
                          ResourceId(rg, "Microsoft.Network", "publicIPAddresses",
                                     names.pip_name),
                          Now(0, 1),
                          ResourceId(rg, "Microsoft.Compute", "virtualMachines",
                                     names.vm_name),
                          TRUE))

\* lifecycle phase of self.state, and of what a state file loads as
Phase(s) == IF s = NoState THEN "Absent"
            ELSE IF s.vm_exists THEN "Running" ELSE "DiskOnly"

\* the instance view of the extension as virtual_machine_extensions.get gives it:
\* the get raises, there is no instance view, or there is one with its statuses
NotRead == [kind |-> "not read"]
ExtensionViews ==
    {[kind |-> "raises"],
     [kind |-> "none"],
     [kind |-> "view", statuses |-> <<[level |-> "Info", message |-> "ok"]>>],
     [kind |-> "view", statuses |-> <<[level |-> "Info", message |-> "started"],
                                      [level |-> "Error", message |-> "e1"],
                                      [level |-> "Error", message |-> "e2"]>>]}

\* awaited: the last resource operation (network, VM, resource group) whose
\* handle the handler awaited and that ended well; ext_view: what the status
\* check of the bootstrap read, after the extension's handle was awaited;
\* boot_error: the exception that reached _install_ssh_server's outer handler;
\* handles: the kinds of the operations whose handle the invocation got from a
\* begin_ call and whose result() has not returned yet
NoLocals == [existing_disk |-> FALSE, nic_id |-> "", pip_id |-> "", net_i |-> 0,
             ret |-> "", poll_ret |-> "", attempts |-> 0, public_ip |-> FALSE,
             vm_result |-> "", info |-> "", returned |-> -1, awaited |-> "",
             ext_view |-> NotRead, boot_error |-> "", handles |-> {}]

NoResources == [rg |-> FALSE, disk |-> FALSE, vnet |-> FALSE, nsg |-> FALSE,
                pip |-> FALSE, nic |-> FALSE, vm |-> FALSE, ip |-> FALSE]

\* one invocation at a time: there is no second process
NoProcess == [tag |-> "no process"]

\* no function is applied away from an invocation
NoCall == [name |-> "", in |-> <<>>, out |-> <<>>]

\* stage: how far the cycle create (from no state file), destroy-vm, recreate has
\* come in consecutive successful invocations; created: the state that create
\* saved; killedInCreate: "killed" once a create from no state file was killed
\* between the VM submission and the save, "next" during the invocation after it;
\* groupDelete: a deletion of the resource group was accepted and the state file
\* is still there; allGone: "done" once a destroy-all has deleted the resource
\* group and the state file, "again" during a destroy-all that comes next
NoHist == [stage |-> 0, created |-> NoState, killedInCreate |-> "no",
           groupDelete |-> FALSE, allGone |-> "no"]

\* nothing at the provider, no state file, no invocation yet
Fresh ==
    /\ prov = NoResources
    /\ ops = [k \in OpKinds |-> "idle"]
    /\ vmSpec = [create_option |-> "", disk_name |-> "", disk_id |-> "", nic_id |-> ""]
    /\ file = NoFile
    /\ hostFile = 0
    /\ run = 0
    /\ pc = "idle"
    /\ cmd = ""
    /\ config = ValidConfig
    /\ state = NoState
    /\ loc = NoLocals
    /\ calls = <<>>
    /\ logs = {}
    /\ exitCode = -1
    /\ startFile = NoFile
    /\ external = FALSE
    /\ hist = NoHist

Init ==
    /\ Fresh
    /\ other = NoProcess
    /\ fn = NoCall


(***************************************************************************)
(* The manager's decisions and the records it builds                       *)
(***************************************************************************)

\* __init__: _load_state() runs before _setup_logging() creates self.logger
LoggerReadyAtLoad == FALSE

\* _load_state: what self.state becomes for a state file that exists and parses,
\* or does not exist
_load_state(f) == IF f = NoFile THEN NoState ELSE json_load(f)

\* a first check that looks at the state file again
CreateRejectsStateOrFile(s) == file /= NoFile \/ (s /= NoState /\ s.vm_exists)

\* create_vm's first check: the only state it refuses to start from
CreateRejectsState(s) == s /= NoState /\ s.vm_exists

\* validate_configuration, given the answer of its connectivity test
validate_configuration(cfg, reachable) ==
    /\ reachable
    /\ ~(cfg.admin_username = "" \/ cfg.admin_password = "")
    /\ Len(cfg.project_name) /= 0

\* create_vm's disk check: the ValueError raised when the disk is found is raised
\* inside the try block, whose "except Exception" clause catches it and goes on
DiskCheckAborts(existing_disk) ==
    LET raised == existing_disk
        caught == TRUE
    IN  raised /\ ~caught

_validate_resource_group_consistency(cfg, rg_name) ==
    rg_name = _get_resource_names(cfg.project_name).resource_group

\* vm_params of create_vm and of recreate_vm_with_disk (what matters of them)
CreateVmParams(names, nic_id) ==
    [create_option |-> "from_image", disk_name |-> names.disk_name, disk_id |-> "",
     nic_id |-> nic_id]

\* a recreate that attaches by name and leaves the disk's id out
RecreateVmParamsWithoutDiskId(s) ==
    [create_option |-> "attach", disk_name |-> s.disk_name, disk_id |-> "",
     nic_id |-> s.network_interface_id]

RecreateVmParams(s) ==
    [create_option |-> "attach", disk_name |-> s.disk_name,
     disk_id |-> s.disk_resource_id, nic_id |-> s.network_interface_id]

\* a temporary state that already says the VM exists
TempStateMarkedExisting(names, rg_name, nic_id, pip_id, now) ==
    VMState(names.vm_name, rg_name, names.disk_name, "", nic_id, pip_id, now, "", TRUE)

\* create_vm: the temporary state for address polling, and the state it saves
TempState(names, rg_name, nic_id, pip_id, now) ==
    VMState(names.vm_name, rg_name, names.disk_name, "", nic_id, pip_id, now, "", FALSE)

FinalState(names, rg_name, nic_id, pip_id, now, vm_id) ==
    VMState(names.vm_name, rg_name, names.disk_name,
            DiskResourceId(rg_name, names.disk_name), nic_id, pip_id, now, vm_id, TRUE)

\* a destroy that goes ahead on any state, whether or not its VM exists
DestroyAppliesToAnyState(s) == s /= NoState

\* a destroy that forgets the disk's id with the VM's, and one that keeps the VM's
DestroyedStateWithoutDisk(s) ==
    [s EXCEPT !.vm_exists = FALSE, !.vm_resource_id = None, !.disk_resource_id = ""]

DestroyedStateKeepingVmId(s) == [s EXCEPT !.vm_exists = FALSE]

\* destroy_vm_keep_disk: when there is something to destroy, and the state after
DestroyApplies(s) == s /= NoState /\ s.vm_exists

DestroyedState(s) == [s EXCEPT !.vm_exists = FALSE, !.vm_resource_id = None]

\* a recreate that flips the flag and forgets the new VM's id
RecreatedStateWithoutVmId(s, vm_id) == [s EXCEPT !.vm_exists = TRUE]

\* recreate_vm_with_disk: the state after the instance is back
RecreatedState(s, vm_id) == [s EXCEPT !.vm_resource_id = vm_id, !.vm_exists = TRUE]

\* _save_state: the file and self.state after json.dump succeeded ("ok"), after
\* open() failed ("open_fails": nothing written) and after the dump failed half-way
\* ("write_fails": the file is left truncated); a failure is logged, not raised
SaveOutcomes == {"ok", "open_fails", "write_fails"}
SavedFile(s, outcome, old) ==
    CASE outcome = "ok" -> json_dump(s)
      [] outcome = "open_fails" -> old
      [] outcome = "write_fails" -> Corrupt
SavedState(s, outcome, old) == IF outcome = "ok" THEN s ELSE old

\* where main() sends each command
Entry(c) ==
    CASE c = "create" -> "c_check"
      [] c = "destroy-vm" -> "d_check"
      [] c = "recreate" -> "r_check"
      [] c = "info" -> "i_info"
      [] c = "list-resources" -> "l_list"
      [] c = "destroy-all" -> "a_check"

Running == pc \notin {"idle", "exited", "killed"}

(***************************************************************************)
(* The provider                                                            *)
(***************************************************************************)

\* prov describes the resource group of this project; the resource group of the
\* other project is no longer at the provider, and a call that names it finds
\* nothing and is refused
GroupAtProvider(rg) == rg = _get_resource_names(ProjectName).resource_group

\* whether the operation of kind k can succeed on the resources as they are.
\* A VM created from an image gets a new OS disk of the given name: that fails
\* when a disk of this name exists and is not the disk of this VM (the error
\* main() gives guidance for); a VM attaching a disk needs the disk.
CanSucceed(k) ==
    CASE k \in {"vnet", "nsg", "pip"} -> prov.rg
      [] k = "nic" -> prov.rg /\ prov.vnet /\ prov.nsg /\ prov.pip
      [] k = "vm_create" ->
            /\ prov.rg /\ prov.nic
            /\ IF vmSpec.create_option = "attach" THEN prov.disk
               ELSE prov.vm \/ ~prov.disk
      [] k = "vm_delete" -> TRUE
      [] k = "rg_delete" -> prov.rg
      [] k = "extension" -> prov.vm

\* the resources after the operation of kind k succeeded
Effect(k) ==
    CASE k \in {"vnet", "nsg", "pip", "nic"} -> [prov EXCEPT ![k] = TRUE]
      [] k = "vm_create" -> [prov EXCEPT !.vm = TRUE, !.disk = TRUE]
      [] k = "vm_delete" -> [prov EXCEPT !.vm = FALSE, !.ip = FALSE]
      [] k = "rg_delete" -> NoResources
      [] k = "extension" -> prov

\* whether the running invocation holds the handle of an operation of kind k:
\* it has submitted one and has not yet returned from its result()
HoldsHandle(k) == k \in loc.handles

\* what a begin_ call that was accepted and a result() that returned or raised
\* make of the handles held
Submitted(locals, k) == [locals EXCEPT !.handles = @ \cup {k}]
Awaited(locals, k) == [locals EXCEPT !.handles = @ \ {k}]

\* a long-running operation ends at the provider, process or no process (with no
\* process left to hold the handle, nobody reads how it ended)
ProviderCompletes(k, ok) ==
    /\ ops[k] = "pending"
    /\ ok => CanSucceed(k)
    /\ ops' = [ops EXCEPT ![k] = IF ~HoldsHandle(k) THEN "idle"
                                 ELSE IF ok THEN "ok" ELSE "failed"]
    /\ prov' = IF ok THEN Effect(k) ELSE prov
    /\ UNCHANGED <<vmSpec, file, hostFile, run, pc, cmd, config, state, loc, calls,
                   logs, exitCode, startFile, external, other, fn, hist>>

\* the dynamic public address is assigned once the interface is in use
ProviderAssignsAddress ==
    /\ prov.pip /\ prov.nic /\ ~prov.ip
    /\ prov.vm \/ ops["vm_create"] = "pending"
    /\ prov' = [prov EXCEPT !.ip = TRUE]
    /\ UNCHANGED <<ops, vmSpec, file, hostFile, run, pc, cmd, config, state, loc,
                   calls, logs, exitCode, startFile, external, other, fn, hist>>

\* between invocations, somebody deletes the unattached disk or the interface at
\* the provider, or the operator deletes the state file, or replaces it with a
\* copy of the other project's (the last invocation is then history: no process
\* is left)
ExternalChange(what) ==
    /\ ~Running
    /\ \A k \in OpKinds : ops[k] /= "pending"
    /\ CASE what = "disk" ->
              /\ prov.disk /\ ~prov.vm
              /\ prov' = [prov EXCEPT !.disk = FALSE]
              /\ file' = file
         [] what = "nic" ->
              /\ prov.nic /\ ~prov.vm
              /\ prov' = [prov EXCEPT !.nic = FALSE, !.ip = FALSE]
              /\ file' = file
         [] what = "state_file" ->
              /\ file /= NoFile
              /\ file' = NoFile
              /\ prov' = prov
         [] what = "state_record" ->
              /\ file /= OtherRecord
              /\ file' = OtherRecord
              /\ prov' = prov
    /\ external' = TRUE
    /\ hist' = [hist EXCEPT !.stage = 0, !.killedInCreate = "no", !.allGone = "no",
                            !.groupDelete = IF what \in {"state_file", "state_record"}
                                           THEN FALSE ELSE @]
    /\ pc' = "idle"
    /\ cmd' = ""
    /\ state' = NoState
    /\ loc' = NoLocals
    /\ calls' = <<>>
    /\ logs' = {}
    /\ exitCode' = -1
    /\ startFile' = file'
    /\ UNCHANGED <<ops, vmSpec, hostFile, run, config, other, fn>>


(***************************************************************************)
(* main(): start of an invocation, its end, and its death                  *)
(***************************************************************************)

\* the cycle create, destroy-vm, recreate goes on only with its next command
StageAtStart(c) ==
    IF \/ hist.stage = 1 /\ c = "destroy-vm"
       \/ hist.stage = 2 /\ c = "recreate"
    THEN hist.stage ELSE 0

KilledMark(old) == IF old = "killed" THEN "next" ELSE "no"

AllGoneMark(old, c) == IF old = "done" /\ c = "destroy-all" THEN "again" ELSE "no"

\* self.state_file is named after the project: the file of a project without a
\* name is another file, which nothing has written
StateFileOf(cfg) == IF cfg.project_name = ProjectName THEN file ELSE NoFile

\* main() up to the dispatch: AzureVMManager.__init__ loads the state file (the
\* credentials and the length of the project name are read by create alone, so
\* only create is tried with a configuration that lacks them)
Start(c) ==
    /\ ~Running
    /\ run < MaxRuns
    /\ run' = run + 1
    /\ cmd' = c
    /\ config' \in (IF c = "create" THEN Configs ELSE {ValidConfig})
    /\ loc' = NoLocals
    /\ calls' = <<>>
    /\ startFile' = StateFileOf(config')
    /\ hist' = [hist EXCEPT !.stage = StageAtStart(c),
                            !.killedInCreate = KilledMark(@),
                            !.allGone = AllGoneMark(@, c)]
    /\ IF StateFileOf(config') = Corrupt
       THEN IF LoggerReadyAtLoad
            THEN /\ state' = NoState
                 /\ logs' = {"warning: could not load state file"}
                 /\ pc' = Entry(c)
                 /\ exitCode' = -1
            ELSE /\ state' = NoState
                 /\ logs' = {"traceback: AttributeError"}
                 /\ pc' = "exited"
                 /\ exitCode' = 1
       ELSE /\ state' = _load_state(StateFileOf(config'))
            /\ logs' = {}
            /\ pc' = Entry(c)
            /\ exitCode' = -1
    /\ UNCHANGED <<prov, ops, vmSpec, file, hostFile, external, other, fn>>

\* a main() whose handler prints the error and returns 0 all the same
RaiseButReturnZero(err) ==
    /\ pc' = "exited"
    /\ exitCode' = 0
    /\ logs' = logs \cup {err}

\* an exception reaches main()'s handler: the error is printed, main returns 1
Raise(err) ==
    /\ pc' = "exited"
    /\ exitCode' = 1
    /\ logs' = logs \cup {err}

\* the handler returned and main() returns 0
Finish(msg) ==
    /\ pc' = "exited"
    /\ exitCode' = 0
    /\ logs' = logs \cup {msg}

\* whether the running create has had its instance creation accepted
CreateSubmitted ==
    /\ cmd = "create"
    /\ \E i \in 1..Len(calls) : calls[i] = "virtual_machines.begin_create_or_update"

\* the process is killed: its memory is gone, the handles it held with it; what
\* it submitted goes on at the provider.  Killed inside _save_state, it may leave
\* the file truncated
Kill ==
    /\ Running
    /\ pc' = "killed"
    /\ ops' = [k \in OpKinds |-> IF ops[k] = "pending" THEN "pending" ELSE "idle"]
    /\ \E torn \in BOOLEAN :
          /\ torn => pc \in {"c_save", "d_save", "r_save"}
          /\ file' = IF torn THEN Corrupt ELSE file
          /\ hist' = [hist EXCEPT !.stage = 0,
                                  !.killedInCreate =
                                      IF CreateSubmitted /\ startFile = NoFile
                                                         /\ loc.returned = -1 /\ ~torn
                                      THEN "killed" ELSE "no"]
    /\ state' = NoState
    /\ loc' = NoLocals
    /\ calls' = <<>>
    /\ logs' = {}
    /\ UNCHANGED <<prov, vmSpec, hostFile, run, cmd, config, exitCode,
                   startFile, external, other, fn>>

(***************************************************************************)
(* create_network_infrastructure, wait_for_public_ip, get_vm_info          *)
(***************************************************************************)

NetCall(k) ==
    CASE k = "vnet" -> "virtual_networks.begin_create_or_update"
      [] k = "nsg" -> "network_security_groups.begin_create_or_update"
      [] k = "pip" -> "public_ip_addresses.begin_create_or_update"
      [] k = "nic" -> "network_interfaces.begin_create_or_update"

\* begin_create_or_update of the next network resource: accepted or refused
NetSubmit ==
    /\ pc = "net_submit"
    /\ LET k == NetKinds[loc.net_i]
       IN  /\ calls' = Append(calls, NetCall(k))
           /\ \E accepted \in BOOLEAN :
                 IF accepted
                 THEN /\ ops' = [ops EXCEPT ![k] = "pending"]
                      /\ loc' = Submitted(loc, k)
                      /\ pc' = "net_await"
                      /\ UNCHANGED <<logs, exitCode>>
                 ELSE /\ Raise("ProviderError")
                      /\ UNCHANGED <<ops, loc>>
    /\ UNCHANGED <<prov, vmSpec, file, hostFile, run, cmd, config, state,
                   startFile, external, other, fn, hist>>

\* a network step that goes on to the next resource with its handle not awaited
NetAwaitLeftOut ==
    /\ pc = "net_await"
    /\ LET rg == _get_resource_names(config.project_name).resource_group
           names == _get_resource_names(config.project_name)
       IN  IF loc.net_i < Len(NetKinds)
           THEN /\ pc' = "net_submit"
                /\ loc' = [loc EXCEPT !.net_i = @ + 1]
           ELSE /\ pc' = loc.ret
                /\ loc' = [loc EXCEPT
                      !.nic_id = ResourceId(rg, "Microsoft.Network",
                                   "networkInterfaces", names.nic_name),
                      !.pip_id = ResourceId(rg, "Microsoft.Network",
                                   "publicIPAddresses", names.pip_name)]
    /\ UNCHANGED <<prov, ops, vmSpec, file, hostFile, run, cmd, config, state, calls,
                   logs, exitCode, startFile, external, other, fn, hist>>

\* operation.result() of that resource; after the last one the ids are returned
NetAwait ==
    /\ pc = "net_await"
    /\ LET k == NetKinds[loc.net_i]
           rg == _get_resource_names(config.project_name).resource_group
           names == _get_resource_names(config.project_name)
       IN  /\ ops[k] \in {"ok", "failed"}
           /\ ops' = [ops EXCEPT ![k] = "idle"]
           /\ IF ops[k] = "failed"
              THEN /\ Raise("ProviderError")
                   /\ loc' = Awaited(loc, k)
              ELSE /\ UNCHANGED <<logs, exitCode>>
                   /\ IF loc.net_i < Len(NetKinds)
                      THEN /\ pc' = "net_submit"
                           /\ loc' = [Awaited(loc, k) EXCEPT !.net_i = @ + 1,
                                                             !.awaited = k]
                      ELSE /\ pc' = loc.ret
                           /\ loc' = [Awaited(loc, k) EXCEPT
                                 !.awaited = k,
                                 !.nic_id = ResourceId(rg, "Microsoft.Network",
                                              "networkInterfaces", names.nic_name),
                                 !.pip_id = ResourceId(rg, "Microsoft.Network",
                                              "publicIPAddresses", names.pip_name)]
    /\ UNCHANGED <<prov, vmSpec, file, hostFile, run, cmd, config, state, calls,
                   startFile, external, other, fn, hist>>

\* one iteration of the polling loop: the address is there, or not yet (or the
\* lookup failed, which the loop swallows)
PollLookup ==
    /\ pc = "poll"
    /\ state /= NoState
    /\ loc.attempts < MaxPolls
    /\ calls' = Append(calls, "public_ip_addresses.get")
    /\ \E found \in BOOLEAN :
          /\ found => prov.pip /\ prov.ip /\ GroupAtProvider(state.resource_group)
          /\ IF found
             THEN /\ loc' = [loc EXCEPT !.public_ip = TRUE]
                  /\ hostFile' = run
                  /\ pc' = loc.poll_ret
             ELSE /\ loc' = [loc EXCEPT !.attempts = @ + 1]
                  /\ hostFile' = hostFile
                  /\ pc' = pc
    /\ UNCHANGED <<prov, ops, vmSpec, file, run, cmd, config, state, logs, exitCode,
                   startFile, external, other, fn, hist>>

\* what the caller of wait_for_public_ip says when it got None
AfterPollMessage(caller) ==
    CASE caller = "c_await" -> "warning: IP not available yet, will continue VM setup"
      [] caller = "r_await" -> "warning: IP not available yet during recreation"
      [] OTHER -> "Public IP: Not yet available"

\* a poll that raises when its time is up
PollTimeoutRaising ==
    /\ pc = "poll"
    /\ state = NoState \/ loc.attempts >= MaxPolls
    /\ Raise("TimeoutError")
    /\ UNCHANGED <<prov, ops, vmSpec, file, hostFile, run, cmd, config, state, loc,
                   calls, startFile, external, other, fn, hist>>

\* the timeout is reached (or there is no state): None is returned
PollTimeout ==
    /\ pc = "poll"
    /\ state = NoState \/ loc.attempts >= MaxPolls
    /\ loc' = [loc EXCEPT !.public_ip = FALSE]
    /\ pc' = loc.poll_ret
    /\ logs' = logs \cup {IF state = NoState THEN "warning: no VM state found"
                          ELSE "warning: address not available yet",
                          AfterPollMessage(loc.poll_ret)}
    /\ UNCHANGED <<prov, ops, vmSpec, file, hostFile, run, cmd, config, state, calls,
                   exitCode, startFile, external, other, fn, hist>>

\* the calls get_vm_info makes and the dictionary it returns, given which of its
\* lookups answer
InfoCallsListingAlways(s, vmOk) ==
    <<"resources.list_by_resource_group">>
    \o (IF s /= NoState /\ s.vm_exists THEN <<"virtual_machines.get">> ELSE <<>>)
    \o (IF s /= NoState /\ s.vm_exists /\ vmOk
        THEN <<"public_ip_addresses.get">> ELSE <<>>)

InfoCalls(s, vmOk) ==
    IF s = NoState THEN <<>>
    ELSE <<"resources.list_by_resource_group">>
         \o (IF s.vm_exists THEN <<"virtual_machines.get">> ELSE <<>>)
         \o (IF s.vm_exists /\ vmOk THEN <<"public_ip_addresses.get">> ELSE <<>>)

InfoResult(s, vmOk, pipOk) ==
    IF s = NoState THEN "No VM state found"
    ELSE IF ~s.vm_exists THEN "state"
    ELSE IF ~vmOk THEN "state, error"
    ELSE IF ~pipOk THEN "state, power_state"
    ELSE "state, power_state, public_ip"

get_vm_info(next, done) ==
    \E vmOk, pipOk \in BOOLEAN :
       /\ vmOk => prov.vm /\ state /= NoState /\ GroupAtProvider(state.resource_group)
       /\ pipOk => vmOk /\ prov.pip /\ prov.ip
       /\ calls' = calls \o InfoCalls(state, vmOk)
       /\ LET gotIp == state /= NoState /\ state.vm_exists /\ pipOk
          IN  /\ loc' = [loc EXCEPT !.info = InfoResult(state, vmOk, pipOk),
                                    !.public_ip = gotIp, !.attempts = 0,
                                    !.poll_ret = "m_done"]
              /\ hostFile' = IF gotIp THEN run ELSE hostFile
              /\ IF done \/ gotIp
                 THEN Finish("printed")
                 ELSE /\ pc' = next
                      /\ UNCHANGED <<logs, exitCode>>

\* an info that writes the record back with the time of the lookup
InfoRefreshingState ==
    /\ pc = "i_info"
    /\ get_vm_info("exited", TRUE)
    /\ file' = IF state = NoState THEN file
               ELSE json_dump([state EXCEPT !.created_at = Now(run, 0)])
    /\ UNCHANGED <<prov, ops, vmSpec, run, cmd, config, state, startFile,
                   external, other, fn, hist>>

\* the info command
Info ==
    /\ pc = "i_info"
    /\ get_vm_info("exited", TRUE)
    /\ UNCHANGED <<prov, ops, vmSpec, file, run, cmd, config, state, startFile,
                   external, other, fn, hist>>

\* main() after create and recreate returned: get_vm_info, and a short poll when
\* it has no address
MainInfo ==
    /\ pc = "m_info"
    /\ get_vm_info("poll", FALSE)
    /\ UNCHANGED <<prov, ops, vmSpec, file, run, cmd, config, state, startFile,
                   external, other, fn, hist>>

MainDone ==
    /\ pc = "m_done"
    /\ Finish("printed")
    /\ UNCHANGED <<prov, ops, vmSpec, file, hostFile, run, cmd, config, state, loc,
                   calls, startFile, external, other, fn, hist>>

\* list_resources_in_group as the list-resources command
ListResources ==
    /\ pc = "l_list"
    /\ calls' = IF state = NoState THEN calls
                ELSE Append(calls, "resources.list_by_resource_group")
    /\ Finish("printed")
    /\ UNCHANGED <<prov, ops, vmSpec, file, hostFile, run, cmd, config, state, loc,
                   startFile, external, other, fn, hist>>


(***************************************************************************)
(* create_vm                                                               *)
(***************************************************************************)

CreateCheck ==
    /\ pc = "c_check"
    /\ IF CreateRejectsState(state)
       THEN Raise("ValueError: VM already exists, use recreate")
       ELSE /\ pc' = "c_validate"
            /\ UNCHANGED <<logs, exitCode>>
    /\ UNCHANGED <<prov, ops, vmSpec, file, hostFile, run, cmd, config, state, loc,
                   calls, startFile, external, other, fn, hist>>

\* validate_configuration: the connectivity test lists the resource groups
CreateValidate ==
    /\ pc = "c_validate"
    /\ calls' = Append(calls, "resource_groups.list")
    /\ \E reachable \in BOOLEAN :
          IF validate_configuration(config, reachable)
          THEN /\ pc' = "c_rg"
               /\ UNCHANGED <<logs, exitCode>>
          ELSE Raise("ValueError: configuration validation failed")
    /\ UNCHANGED <<prov, ops, vmSpec, file, hostFile, run, cmd, config, state, loc,
                   startFile, external, other, fn, hist>>

\* create_resource_group: get, and create_or_update when the get raises
CreateResourceGroup ==
    /\ pc = "c_rg"
    /\ \E got \in BOOLEAN :
          /\ got => prov.rg
          /\ IF got
             THEN /\ calls' = Append(calls, "resource_groups.get")
                  /\ pc' = "c_disk"
                  /\ UNCHANGED <<prov, logs, exitCode>>
             ELSE /\ calls' = calls \o <<"resource_groups.get",
                                         "resource_groups.create_or_update">>
                  /\ \E created \in BOOLEAN :
                        IF created
                        THEN /\ prov' = [prov EXCEPT !.rg = TRUE]
                             /\ pc' = "c_disk"
                             /\ UNCHANGED <<logs, exitCode>>
                        ELSE /\ Raise("ProviderError")
                             /\ prov' = prov
    /\ UNCHANGED <<ops, vmSpec, file, hostFile, run, cmd, config, state, loc,
                   startFile, external, other, fn, hist>>

\* the disk check, then _validate_resource_group_consistency
CreateDiskCheck ==
    /\ pc = "c_disk"
    /\ calls' = Append(calls, "disks.get")
    /\ \E found \in BOOLEAN :
          /\ found => prov.disk
          /\ loc' = [loc EXCEPT !.existing_disk = found, !.net_i = 1,
                                !.ret = "c_submit"]
          /\ LET rg_name == _get_resource_names(config.project_name).resource_group
             IN  IF DiskCheckAborts(found)
                 THEN Raise("ValueError: disk already exists, use recreate")
                 ELSE IF ~_validate_resource_group_consistency(config, rg_name)
                 THEN Raise("ValueError: resource group validation failed")
                 ELSE /\ pc' = "net_submit"
                      /\ logs' = IF found
                                 THEN logs \cup {"warning: disk already exists"}
                                 ELSE logs
                      /\ exitCode' = exitCode
    /\ UNCHANGED <<prov, ops, vmSpec, file, hostFile, run, cmd, config, state,
                   startFile, external, other, fn, hist>>

\* begin_create_or_update of the VM; once accepted, the temporary state is set
CreateSubmit ==
    /\ pc = "c_submit"
    /\ calls' = Append(calls, "virtual_machines.begin_create_or_update")
    /\ LET names == _get_resource_names(config.project_name)
       IN  \E accepted \in BOOLEAN :
              IF accepted
              THEN /\ ops' = [ops EXCEPT !["vm_create"] = "pending"]
                   /\ vmSpec' = CreateVmParams(names, loc.nic_id)
                   /\ state' = TempState(names, names.resource_group, loc.nic_id,
                                         loc.pip_id, Now(run, 0))
                   /\ loc' = [Submitted(loc, "vm_create") EXCEPT
                                 !.attempts = 0, !.poll_ret = "c_await"]
                   /\ pc' = "poll"
                   /\ UNCHANGED <<logs, exitCode>>
              ELSE /\ Raise("ProviderError")
                   /\ UNCHANGED <<ops, vmSpec, state, loc>>
    /\ UNCHANGED <<prov, file, hostFile, run, cmd, config, startFile, external, other, fn, hist>>

\* vm_operation.result()
CreateAwait ==
    /\ pc = "c_await"
    /\ ops["vm_create"] \in {"ok", "failed"}
    /\ ops' = [ops EXCEPT !["vm_create"] = "idle"]
    /\ LET names == _get_resource_names(config.project_name)
       IN  IF ops["vm_create"] = "ok"
           THEN /\ loc' = [Awaited(loc, "vm_create") EXCEPT
                              !.awaited = "vm_create", !.vm_result =
                              ResourceId(names.resource_group, "Microsoft.Compute",
                                         "virtualMachines", names.vm_name)]
                /\ pc' = "c_ssh"
                /\ UNCHANGED <<logs, exitCode>>
           ELSE /\ Raise("ProviderError")
                /\ loc' = Awaited(loc, "vm_create")
    /\ UNCHANGED <<prov, vmSpec, file, hostFile, run, cmd, config, state, calls,
                   startFile, external, other, fn, hist>>

(***************************************************************************)
(* _install_ssh_server, inside create_vm                                   *)
(***************************************************************************)

\* a bootstrap whose re-raised submission error escapes
BootstrapPropagatesSubmission(err) == err = "extension submission failed"

\* the outer handler of _install_ssh_server catches whatever reaches it
BootstrapPropagates(err) ==
    LET caught == TRUE
    IN  ~caught

\* the outer handler: a warning with the error, the manual instructions, and
\* create_vm goes on
BootstrapFailed(err, locals) ==
    /\ loc' = [locals EXCEPT !.boot_error = err]
    /\ IF BootstrapPropagates(err)
       THEN Raise(err)
       ELSE /\ pc' = "c_save"
            /\ exitCode' = exitCode
            /\ logs' = logs \cup {"warning: SSH server setup failed: " \o err,
                                   "info: manual installation instructions"}

\* _generate_ssh_keys and the reading of the script template
CreateInstallSsh ==
    /\ pc = "c_ssh"
    /\ \E ok \in BOOLEAN :
          IF ok
          THEN /\ pc' = "b_upload"
               /\ UNCHANGED <<logs, exitCode, loc>>
          ELSE BootstrapFailed("key generation failed", loc)
    /\ UNCHANGED <<prov, ops, vmSpec, file, hostFile, run, cmd, config, state,
                   calls, startFile, external, other, fn, hist>>

\* _upload_script_to_blob: the storage account (created and awaited on the
\* spot), the container, the blob; then the account's keys
BootstrapUpload ==
    /\ pc = "b_upload"
    /\ \E ok \in BOOLEAN :
          IF ok
          THEN /\ calls' = calls \o <<"storage_accounts.begin_create",
                                      "blob_client.upload_blob">>
               /\ pc' = "b_submit"
               /\ UNCHANGED <<logs, exitCode, loc>>
          ELSE /\ calls' = Append(calls, "storage_accounts.begin_create")
               /\ BootstrapFailed("upload failed", loc)
    /\ UNCHANGED <<prov, ops, vmSpec, file, hostFile, run, cmd, config, state,
                   startFile, external, other, fn, hist>>

\* begin_create_or_update of the CustomScriptExtension
BootstrapSubmit ==
    /\ pc = "b_submit"
    /\ calls' = Append(calls, "virtual_machine_extensions.begin_create_or_update")
    /\ \E accepted \in BOOLEAN :
          IF accepted
          THEN /\ ops' = [ops EXCEPT !["extension"] = "pending"]
               /\ loc' = Submitted(loc, "extension")
               /\ pc' = "b_await"
               /\ UNCHANGED <<logs, exitCode>>
          ELSE /\ BootstrapFailed("extension submission failed", loc)
               /\ ops' = ops
    /\ UNCHANGED <<prov, vmSpec, file, hostFile, run, cmd, config, state,
                   startFile, external, other, fn, hist>>

\* extension_operation.result()
BootstrapAwait ==
    /\ pc = "b_await"
    /\ ops["extension"] \in {"ok", "failed"}
    /\ ops' = [ops EXCEPT !["extension"] = "idle"]
    /\ IF ops["extension"] = "ok"
       THEN /\ pc' = "b_status"
            /\ loc' = Awaited(loc, "extension")
            /\ UNCHANGED <<logs, exitCode>>
       ELSE BootstrapFailed("extension deployment failed", Awaited(loc, "extension"))
    /\ UNCHANGED <<prov, vmSpec, file, hostFile, run, cmd, config, state,
                   calls, startFile, external, other, fn, hist>>

\* error_statuses of the status check
ErrorStatuses(statuses) == SelectSeq(statuses, LAMBDA st : st.level = "Error")

\* the exception raised inside the status check's try block, None for none
ExtensionStatusError(view) ==
    IF view.kind = "raises" THEN "ProviderError"
    ELSE IF view.kind = "none" THEN None
    ELSE LET error_statuses == ErrorStatuses(view.statuses)
         IN  IF error_statuses /= <<>>
             THEN "SSH extension failed: " \o error_statuses[1].message
             ELSE None

\* the status check's own "except Exception" catches what its try block raises,
\* the error raised for the error statuses included
StatusCheckPropagates(err) ==
    LET raised == err /= None
        caught == TRUE
    IN  raised /\ ~caught

\* virtual_machine_extensions.get with the instance view, and what follows
BootstrapStatus ==
    /\ pc = "b_status"
    /\ calls' = Append(calls, "virtual_machine_extensions.get")
    /\ \E view \in ExtensionViews :
          LET err == ExtensionStatusError(view)
              read == [loc EXCEPT !.ext_view = view]
          IN  IF StatusCheckPropagates(err)
              THEN BootstrapFailed(err, read)
              ELSE /\ loc' = read
                   /\ pc' = "c_save"
                   /\ exitCode' = exitCode
                   /\ logs' = logs
                         \cup (IF err /= None
                               THEN {"warning: could not check extension status: "
                                         \o err}
                               ELSE IF view.kind = "none"
                               THEN {"warning: extension status not available"}
                               ELSE {"no extension errors detected"})
                         \cup {"SSH server extension deployment completed"}
    /\ UNCHANGED <<prov, ops, vmSpec, file, hostFile, run, cmd, config, state,
                   startFile, external, other, fn, hist>>

\* the state is built and saved; create_vm returns it
CreateSave ==
    /\ pc = "c_save"
    /\ LET names == _get_resource_names(config.project_name)
           new == FinalState(names, names.resource_group, loc.nic_id, loc.pip_id,
                             Now(run, 1), loc.vm_result)
       IN  \E outcome \in SaveOutcomes :
              /\ file' = SavedFile(new, outcome, file)
              /\ state' = SavedState(new, outcome, state)
              /\ logs' = IF outcome = "ok" THEN logs
                         ELSE logs \cup {"error: could not save state"}
              /\ hist' = [hist EXCEPT
                            !.stage = IF outcome = "ok" /\ startFile = NoFile
                                      THEN 1 ELSE 0,
                            !.created = IF outcome = "ok" /\ startFile = NoFile
                                        THEN new ELSE @]
    /\ loc' = [loc EXCEPT !.returned = Len(calls)]
    /\ pc' = "m_info"
    /\ UNCHANGED <<prov, ops, vmSpec, hostFile, run, cmd, config, calls, exitCode,
                   startFile, external, other, fn>>

(***************************************************************************)
(* destroy_vm_keep_disk                                                    *)
(***************************************************************************)

\* nothing to destroy: False is returned, main() prints the failure, returns 0
DestroyCheck ==
    /\ pc = "d_check"
    /\ IF DestroyApplies(state)
       THEN /\ pc' = "d_submit"
            /\ UNCHANGED <<logs, exitCode, loc>>
       ELSE /\ Finish("warning: no VM exists to destroy")
            /\ loc' = [loc EXCEPT !.returned = Len(calls)]
    /\ UNCHANGED <<prov, ops, vmSpec, file, hostFile, run, cmd, config, state, calls,
                   startFile, external, other, fn, hist>>

\* begin_delete of the VM; a refusal is caught and False is returned
DestroySubmit ==
    /\ pc = "d_submit"
    /\ calls' = Append(calls, "virtual_machines.begin_delete")
    /\ \E accepted \in BOOLEAN :
          /\ accepted => GroupAtProvider(state.resource_group)
          /\ IF accepted
             THEN /\ ops' = [ops EXCEPT !["vm_delete"] = "pending"]
                  /\ loc' = Submitted(loc, "vm_delete")
                  /\ pc' = "d_await"
                  /\ UNCHANGED <<logs, exitCode>>
             ELSE /\ Finish("error: failed to destroy VM")
                  /\ UNCHANGED <<ops, loc>>
    /\ UNCHANGED <<prov, vmSpec, file, hostFile, run, cmd, config, state,
                   startFile, external, other, fn, hist>>

\* a failed deletion that clears the VM from self.state all the same
DestroyFailedStateWithoutVm(s) == DestroyedState(s)

\* the except branch of destroy_vm_keep_disk: it logs and returns False
DestroyFailedState(s) == s

\* vm_operation.result(); on success self.state is updated in place
DestroyAwait ==
    /\ pc = "d_await"
    /\ ops["vm_delete"] \in {"ok", "failed"}
    /\ ops' = [ops EXCEPT !["vm_delete"] = "idle"]
    /\ IF ops["vm_delete"] = "ok"
       THEN /\ state' = DestroyedState(state)
            /\ loc' = [Awaited(loc, "vm_delete") EXCEPT !.awaited = "vm_delete"]
            /\ pc' = "d_save"
            /\ UNCHANGED <<logs, exitCode>>
       ELSE /\ Finish("error: failed to destroy VM")
            /\ loc' = Awaited(loc, "vm_delete")
            /\ state' = DestroyFailedState(state)
    /\ UNCHANGED <<prov, vmSpec, file, hostFile, run, cmd, config, calls,
                   startFile, external, other, fn, hist>>

\* _save_state(self.state); True is returned
DestroySave ==
    /\ pc = "d_save"
    /\ \E outcome \in SaveOutcomes :
          /\ file' = SavedFile(state, outcome, file)
          /\ hist' = [hist EXCEPT !.stage = IF outcome = "ok" /\ @ = 1 THEN 2 ELSE 0]
          /\ pc' = "exited"
          /\ exitCode' = 0
          /\ logs' = logs \cup {"VM destroyed, disk preserved"}
                       \cup (IF outcome = "ok" THEN {}
                             ELSE {"error: could not save state"})
    /\ loc' = [loc EXCEPT !.returned = Len(calls)]
    /\ UNCHANGED <<prov, ops, vmSpec, hostFile, run, cmd, config, state, calls,
                   startFile, external, other, fn>>


(***************************************************************************)
(* recreate_vm_with_disk                                                   *)
(***************************************************************************)

\* a recreate that takes a missing record for a record without a VM
RecreateDecisionIgnoringAbsence(s) ==
    IF s /= NoState /\ s.vm_exists THEN "already exists" ELSE "recreate"

\* a recreate that goes ahead although the VM of the record exists
RecreateDecisionIgnoringVm(s) ==
    IF s = NoState THEN "no state" ELSE "recreate"

\* recreate_vm_with_disk's two checks of self.state
RecreateDecision(s) ==
    IF s = NoState THEN "no state"
    ELSE IF s.vm_exists THEN "already exists"
    ELSE "recreate"

\* no state: ValueError; the VM exists already: the state is returned as it is
RecreateCheck ==
    /\ pc = "r_check"
    /\ LET decision == RecreateDecision(state)
       IN  IF decision = "no state"
           THEN /\ Raise("ValueError: no state found")
                /\ loc' = loc
           ELSE IF decision = "already exists"
           THEN /\ pc' = "m_info"
                /\ logs' = logs \cup {"warning: VM already exists"}
                /\ exitCode' = exitCode
                /\ loc' = [loc EXCEPT !.returned = Len(calls)]
           ELSE /\ pc' = "r_disk"
                /\ UNCHANGED <<logs, exitCode, loc>>
    /\ UNCHANGED <<prov, ops, vmSpec, file, hostFile, run, cmd, config, state, calls,
                   startFile, external, other, fn, hist>>

\* a disk check that only warns when the disk is gone, as the interface check does
RecreateDiskCheckOnlyWarns(found) == FALSE

\* the disk check: disks.get raising is turned into a ValueError
RecreateDiskCheckAborts(found) == ~found

\* the disk must be there
RecreateDiskCheck ==
    /\ pc = "r_disk"
    /\ calls' = Append(calls, "disks.get")
    /\ \E found \in BOOLEAN :
          /\ found => prov.disk /\ GroupAtProvider(state.resource_group)
          /\ IF RecreateDiskCheckAborts(found)
             THEN Raise("ValueError: disk not found")
             ELSE /\ pc' = "r_nic"
                  /\ UNCHANGED <<logs, exitCode>>
    /\ UNCHANGED <<prov, ops, vmSpec, file, hostFile, run, cmd, config, state, loc,
                   startFile, external, other, fn, hist>>

\* an interface check that only warns and goes on to the instance
RecreateNicCheckGoingOn ==
    /\ pc = "r_nic"
    /\ calls' = Append(calls, "network_interfaces.get")
    /\ \E found \in BOOLEAN :
          /\ found => prov.nic /\ GroupAtProvider(state.resource_group)
          /\ pc' = "r_submit"
          /\ logs' = IF found THEN logs
                     ELSE logs \cup {"warning: network interface not found"}
    /\ UNCHANGED <<prov, ops, vmSpec, file, hostFile, run, cmd, config, state, loc,
                   exitCode, startFile, external, other, fn, hist>>

\* the network interface: when its lookup raises, the network is created again
RecreateNicCheck ==
    /\ pc = "r_nic"
    /\ calls' = Append(calls, "network_interfaces.get")
    /\ \E found \in BOOLEAN :
          /\ found => prov.nic /\ GroupAtProvider(state.resource_group)
          /\ IF found
             THEN /\ pc' = "r_submit"
                  /\ loc' = loc
             ELSE /\ pc' = "net_submit"
                  /\ loc' = [loc EXCEPT !.net_i = 1, !.ret = "r_submit"]
    /\ UNCHANGED <<prov, ops, vmSpec, file, hostFile, run, cmd, config, state, logs,
                   exitCode, startFile, external, other, fn, hist>>

\* begin_create_or_update of the VM with the disk of the state attached
RecreateSubmit ==
    /\ pc = "r_submit"
    /\ calls' = Append(calls, "virtual_machines.begin_create_or_update")
    /\ \E accepted \in BOOLEAN :
          IF accepted
          THEN /\ ops' = [ops EXCEPT !["vm_create"] = "pending"]
               /\ vmSpec' = RecreateVmParams(state)
               /\ loc' = [Submitted(loc, "vm_create") EXCEPT
                             !.attempts = 0, !.poll_ret = "r_await"]
               /\ pc' = "poll"
               /\ UNCHANGED <<logs, exitCode>>
          ELSE /\ Raise("ProviderError")
               /\ UNCHANGED <<ops, vmSpec, loc>>
    /\ UNCHANGED <<prov, file, hostFile, run, cmd, config, state, startFile,
                   external, other, fn, hist>>

\* vm_operation.result(); on success self.state is updated in place
RecreateAwait ==
    /\ pc = "r_await"
    /\ ops["vm_create"] \in {"ok", "failed"}
    /\ ops' = [ops EXCEPT !["vm_create"] = "idle"]
    /\ IF ops["vm_create"] = "ok"
       THEN /\ state' = RecreatedState(state,
                           ResourceId(state.resource_group, "Microsoft.Compute",
                                      "virtualMachines", state.vm_name))
            /\ loc' = [Awaited(loc, "vm_create") EXCEPT !.awaited = "vm_create"]
            /\ pc' = "r_save"
            /\ UNCHANGED <<logs, exitCode>>
       ELSE /\ Raise("ProviderError")
            /\ loc' = Awaited(loc, "vm_create")
            /\ state' = state
    /\ UNCHANGED <<prov, vmSpec, file, hostFile, run, cmd, config, calls,
                   startFile, external, other, fn, hist>>

\* _save_state(self.state); the state is returned
RecreateSave ==
    /\ pc = "r_save"
    /\ \E outcome \in SaveOutcomes :
          /\ file' = SavedFile(state, outcome, file)
          /\ hist' = [hist EXCEPT !.stage = IF outcome = "ok" /\ @ = 2 THEN 3 ELSE 0]
          /\ logs' = IF outcome = "ok" THEN logs
                     ELSE logs \cup {"error: could not save state"}
    /\ loc' = [loc EXCEPT !.returned = Len(calls)]
    /\ pc' = "m_info"
    /\ UNCHANGED <<prov, ops, vmSpec, hostFile, run, cmd, config, state, calls,
                   exitCode, startFile, external, other, fn>>

(***************************************************************************)
(* destroy_all_resources                                                   *)
(***************************************************************************)

\* a destroy-all that goes to the provider with or without a state
DestroyAllAppliesAlways(s) == TRUE

\* destroy_all_resources: when there is something to destroy
DestroyAllApplies(s) == s /= NoState

\* no state: nothing to destroy, True is returned
DestroyAllCheck ==
    /\ pc = "a_check"
    /\ IF ~DestroyAllApplies(state)
       THEN /\ Finish("warning: no state found, nothing to destroy")
            /\ loc' = [loc EXCEPT !.returned = Len(calls)]
       ELSE /\ pc' = "a_list"
            /\ UNCHANGED <<logs, exitCode, loc>>
    /\ UNCHANGED <<prov, ops, vmSpec, file, hostFile, run, cmd, config, state, calls,
                   startFile, external, other, fn, hist>>

\* the resources that will go are listed
DestroyAllList ==
    /\ pc = "a_list"
    /\ calls' = Append(calls, "resources.list_by_resource_group")
    /\ pc' = "a_submit"
    /\ UNCHANGED <<prov, ops, vmSpec, file, hostFile, run, cmd, config, state, loc,
                   logs, exitCode, startFile, external, other, fn, hist>>

\* begin_delete of the resource group; a refusal is caught, False is returned
DestroyAllSubmit ==
    /\ pc = "a_submit"
    /\ calls' = Append(calls, "resource_groups.begin_delete")
    /\ \E accepted \in BOOLEAN :
          /\ accepted => prov.rg /\ state /= NoState /\ GroupAtProvider(state.resource_group)
          /\ IF accepted
             THEN /\ ops' = [ops EXCEPT !["rg_delete"] = "pending"]
                  /\ loc' = Submitted(loc, "rg_delete")
                  /\ pc' = "a_await"
                  /\ hist' = [hist EXCEPT !.groupDelete = TRUE]
                  /\ UNCHANGED <<logs, exitCode>>
             ELSE /\ Finish("error: failed to destroy all resources")
                  /\ UNCHANGED <<ops, hist, loc>>
    /\ UNCHANGED <<prov, vmSpec, file, hostFile, run, cmd, config, state,
                   startFile, external, other, fn>>

\* a destroy-all that removes the state file whatever the deletion's result
DestroyAllRemovesWhateverTheResult(result, removed) == removed

\* the state file is removed once rg_operation.result() has returned and
\* os.remove succeeds
DestroyAllRemoves(result, removed) == result = "ok" /\ removed

\* rg_operation.result(); then the state file is removed and self.state dropped
DestroyAllAwait ==
    /\ pc = "a_await"
    /\ ops["rg_delete"] \in {"ok", "failed"}
    /\ ops' = [ops EXCEPT !["rg_delete"] = "idle"]
    /\ \E removed \in BOOLEAN :
          IF DestroyAllRemoves(ops["rg_delete"], removed)
          THEN /\ file' = NoFile
               /\ state' = NoState
               /\ hist' = [hist EXCEPT !.groupDelete = FALSE, !.allGone = "done"]
               /\ Finish("all resources destroyed")
          ELSE /\ ops["rg_delete"] = "ok" => file /= NoFile
               /\ Finish("error: failed to destroy all resources")
               /\ UNCHANGED <<file, state, hist>>
    /\ loc' = [Awaited(loc, "rg_delete") EXCEPT
                  !.returned = Len(calls),
                  !.awaited = IF ops["rg_delete"] = "ok" THEN "rg_delete" ELSE @]
    /\ UNCHANGED <<prov, vmSpec, hostFile, run, cmd, config, calls, startFile,
                   external, other, fn>>

(***************************************************************************)
(* The system                                                              *)
(***************************************************************************)

Next ==
    \/ \E c \in Commands : Start(c)
    \/ Kill
    \/ NetSubmit
    \/ NetAwait
    \/ PollLookup
    \/ PollTimeout
    \/ Info
    \/ MainInfo
    \/ MainDone
    \/ ListResources
    \/ CreateCheck
    \/ CreateValidate
    \/ CreateResourceGroup
    \/ CreateDiskCheck
    \/ CreateSubmit
    \/ CreateAwait
    \/ CreateInstallSsh
    \/ BootstrapUpload
    \/ BootstrapSubmit
    \/ BootstrapAwait
    \/ BootstrapStatus
    \/ CreateSave
    \/ DestroyCheck
    \/ DestroySubmit
    \/ DestroyAwait
    \/ DestroySave
    \/ RecreateCheck
    \/ RecreateDiskCheck
    \/ RecreateNicCheck
    \/ RecreateSubmit
    \/ RecreateAwait
    \/ RecreateSave
    \/ DestroyAllCheck
    \/ DestroyAllList
    \/ DestroyAllSubmit
    \/ DestroyAllAwait
    \/ \E k \in OpKinds, ok \in BOOLEAN : ProviderCompletes(k, ok)
    \/ ProviderAssignsAddress
    \/ \E what \in {"disk", "nic", "state_file", "state_record"} :
          ExternalChange(what)

Spec == Init /\ [][Next]_vars

\* a process that is inside wait_for_public_ip goes on with its loop
LiveSpec == Spec /\ WF_vars(PollLookup \/ PollTimeout)

\* the state store works: no _save_state fails, and destroy-all removes the
\* state file once the resource group is gone
StateWritesSucceed ==
    /\ "error: could not save state" \notin logs'
    /\ (pc = "a_await" /\ ops["rg_delete"] = "ok") => file' = NoFile

\* invocations one at a time, a state store that works, and nobody but the
\* manager at the provider's resources or at the state file; a process can
\* still be killed, and the provider still refuses or fails what it will
ClosedNext ==
    \/ \E c \in Commands : Start(c)
    \/ Kill
    \/ NetSubmit
    \/ NetAwait
    \/ PollLookup
    \/ PollTimeout
    \/ Info
    \/ MainInfo
    \/ MainDone
    \/ ListResources
    \/ CreateCheck
    \/ CreateValidate
    \/ CreateResourceGroup
    \/ CreateDiskCheck
    \/ CreateSubmit
    \/ CreateAwait
    \/ CreateInstallSsh
    \/ BootstrapUpload
    \/ BootstrapSubmit
    \/ BootstrapAwait
    \/ BootstrapStatus
    \/ CreateSave /\ StateWritesSucceed
    \/ DestroyCheck
    \/ DestroySubmit
    \/ DestroyAwait
    \/ DestroySave /\ StateWritesSucceed
    \/ RecreateCheck
    \/ RecreateDiskCheck
    \/ RecreateNicCheck
    \/ RecreateSubmit
    \/ RecreateAwait
    \/ RecreateSave /\ StateWritesSucceed
    \/ DestroyAllCheck
    \/ DestroyAllList
    \/ DestroyAllSubmit
    \/ DestroyAllAwait /\ StateWritesSucceed
    \/ \E k \in OpKinds, ok \in BOOLEAN : ProviderCompletes(k, ok)
    \/ ProviderAssignsAddress

ClosedSpec == Init /\ [][ClosedNext]_vars

\* a provider that accepts what is submitted to it and answers the lookups: no
\* step of the manager ends the invocation with an error
ProviderServes == ~(pc' = "exited" /\ exitCode' /= 0)

\* creates with a valid configuration that find no state file and no disk, under
\* a provider that serves and completes every operation well, except that the
\* address may come late or never and the bootstrap deploy may fail at any of
\* its steps; a create can be killed before it has submitted the instance
ServedNext ==
    \/ /\ Start("create")
       /\ config' = ValidConfig
       /\ file = NoFile /\ ~prov.disk
    \/ Kill /\ ~CreateSubmitted
    \/ NetSubmit /\ ProviderServes
    \/ NetAwait
    \/ PollLookup
    \/ PollTimeout
    \/ MainInfo
    \/ MainDone
    \/ CreateCheck
    \/ CreateValidate /\ ProviderServes
    \/ CreateResourceGroup /\ ProviderServes
    \/ CreateDiskCheck
    \/ CreateSubmit /\ ProviderServes
    \/ CreateAwait
    \/ CreateInstallSsh
    \/ BootstrapUpload
    \/ BootstrapSubmit
    \/ BootstrapAwait
    \/ BootstrapStatus
    \/ CreateSave /\ StateWritesSucceed
    \/ \E k \in OpKinds \ {"extension"} : ProviderCompletes(k, TRUE)
    \/ \E ok \in BOOLEAN : ProviderCompletes("extension", ok)
    \/ ProviderAssignsAddress

\* the process runs on, and the provider finishes what it was given
ServedSpec == Init /\ [][ServedNext]_vars /\ WF_vars(ServedNext)

(***************************************************************************)
(* Two processes of the same project.  One is scheduled and owns pc, cmd,  *)
(* config, state, loc, calls, logs, exitCode, startFile, its run number    *)
(* and the results of the operations it holds handles of; the other waits  *)
(* in `other`.  The state file and the provider are shared, and nothing    *)
(* in AzureVMManager locks either.                                         *)
(***************************************************************************)

\* what a process owns
Context ==
    [pc |-> pc, cmd |-> cmd, config |-> config, state |-> state, loc |-> loc,
     calls |-> calls, logs |-> logs, exitCode |-> exitCode,
     startFile |-> startFile, run |-> run, ops |-> ops]

\* the second process before its main() has run
SecondProcess ==
    [pc |-> "idle", cmd |-> "", config |-> ValidConfig, state |-> NoState,
     loc |-> NoLocals, calls |-> <<>>, logs |-> {}, exitCode |-> -1,
     startFile |-> NoFile, run |-> 1, ops |-> [k \in OpKinds |-> "idle"]]

\* the operating system schedules the other process
Switch ==
    /\ other /= NoProcess
    /\ other' = Context
    /\ pc' = other.pc
    /\ cmd' = other.cmd
    /\ config' = other.config
    /\ state' = other.state
    /\ loc' = other.loc
    /\ calls' = other.calls
    /\ logs' = other.logs
    /\ exitCode' = other.exitCode
    /\ startFile' = other.startFile
    /\ run' = other.run
    /\ ops' = other.ops
    /\ UNCHANGED <<prov, vmSpec, file, hostFile, external, fn, hist>>

RaceInit ==
    /\ Fresh
    /\ other = SecondProcess
    /\ fn = NoCall

\* the bootstrap deploy goes through to its status check
BootstrapServes == pc' /= "c_save"

\* each process runs one create_vm with a valid configuration, under a provider
\* that serves and a state store that works
RaceNext ==
    \/ Start("create") /\ pc = "idle" /\ config' = ValidConfig
    \/ Switch
    \/ NetSubmit /\ ProviderServes
    \/ NetAwait
    \/ PollLookup
    \/ PollTimeout
    \/ CreateCheck
    \/ CreateValidate /\ ProviderServes
    \/ CreateResourceGroup /\ ProviderServes
    \/ CreateDiskCheck
    \/ CreateSubmit /\ ProviderServes
    \/ CreateAwait
    \/ CreateInstallSsh /\ BootstrapServes
    \/ BootstrapUpload /\ BootstrapServes
    \/ BootstrapSubmit /\ BootstrapServes
    \/ BootstrapAwait
    \/ BootstrapStatus
    \/ CreateSave /\ StateWritesSucceed
    \/ \E k \in OpKinds : ProviderCompletes(k, TRUE)
    \/ ProviderAssignsAddress

RaceSpec == RaceInit /\ [][RaceNext]_vars


(***************************************************************************)
(* Functions of the program, applied to inputs drawn from bounded sets:    *)
(* fn.name is the function, fn.in its inputs, fn.out what it gave (empty   *)
(* until it is applied)                                                    *)
(***************************************************************************)
MaxLen == 3         \* characters in a project name
Alphabet == {"a", "_", "-"}
ProjectIds == UNION {[1..n -> Alphabet] : n \in 0..MaxLen}

\* self.state_file
StateFileName(project_name) == "var/state/" \o Join(project_name) \o "_state.json"

\* two managers, each built for a project name: the names and the state file
\* of each
ApplyNames ==
    /\ fn.name = "_get_resource_names"
    /\ fn.out = <<>>
    /\ fn' = [fn EXCEPT !.out =
                 [i \in 1..2 |-> [names |-> _get_resource_names(fn.in[i]),
                                  state_file |-> StateFileName(fn.in[i])]]]
    /\ UNCHANGED <<prov, ops, vmSpec, file, hostFile, run, pc, cmd, config, state,
                   loc, calls, logs, exitCode, startFile, external, hist, other>>

\* an option that was not given: argparse's default None, a key that
\* config.yaml does not have
NotGiven == <<None>>

\* what the command line can hold: --project-name with a value (possibly the
\* empty string) or not at all, the flags --install-wsl and --no-spot
CommandLines ==
    [project_name : {NotGiven, <<>>, <<"c">>},
     install_wsl : BOOLEAN,
     no_spot : BOOLEAN]

\* what config.yaml can hold ("True"/"False" for a boolean that is there)
ConfigFiles ==
    [project_name : {NotGiven, <<"f">>},
     install_wsl : {None, "True", "False"},
     spot : {None, "True", "False"}]

Bool(b) == IF b THEN "True" ELSE "False"

\* the keyword arguments main() gives VMConfig
MainArgs(args) ==
    [project_name |-> args.project_name,
     spot |-> IF args.no_spot THEN Bool(~args.no_spot) ELSE None,
     install_wsl |-> Bool(args.install_wsl)]

\* Python's truth value of an Optional[str]
Truthy(v) == v /= NotGiven /\ v /= <<>>

\* how a key that config.yaml does not have is written here
Missing(key) == IF key = "project_name" THEN NotGiven ELSE None

\* config_data.get(key, default)
Get(config_data, key, default) ==
    IF config_data[key] = Missing(key) THEN default ELSE config_data[key]

DefaultProject == <<"d">>

\* VMConfig.__post_init__
VMConfig(kw, config_data) ==
    [project_name |-> IF Truthy(kw.project_name) THEN kw.project_name
                      ELSE Get(config_data, "project_name", DefaultProject),
     spot |-> IF kw.spot /= None THEN kw.spot
              ELSE Get(config_data, "spot", "True"),
     install_wsl |-> IF kw.install_wsl /= None THEN kw.install_wsl
                     ELSE Get(config_data, "install_wsl", "False")]

\* main() builds the configuration from the command line and config.yaml
ApplyVMConfig ==
    /\ fn.name = "VMConfig"
    /\ fn.out = <<>>
    /\ fn' = [fn EXCEPT !.out = <<VMConfig(MainArgs(fn.in[1]), fn.in[2])>>]
    /\ UNCHANGED <<prov, ops, vmSpec, file, hostFile, run, pc, cmd, config, state,
                   loc, calls, logs, exitCode, startFile, external, hist, other>>

\* re.sub(r'[^a-z0-9]', '', clean_name) (the names drawn hold no capital and no
\* reserved word)
Alphanumeric(s) == SelectSeq(s, LAMBDA c : c \notin {"_", "-"})

Chars(n, c) == [i \in 1..n |-> c]

\* s[:n]
Prefix(s, n) == SubSeq(s, 1, IF Len(s) < n THEN Len(s) ELSE n)

\* the account name _create_storage_account makes of the project name and the
\* eight characters it draws
StorageName(project_name, suffix) ==
    LET clean_name == IF Len(Alphanumeric(project_name)) < 3
                      THEN <<"v", "m", "s", "c", "r", "i", "p", "t", "s">>
                      ELSE Alphanumeric(project_name)
    IN  Join(Prefix(Prefix(clean_name, 10)
                      \o <<"s", "c", "r", "i", "p", "t", "s">> \o suffix, 24))

\* the suffixes random.choices can draw, in the order of the draws
Suffixes == {Chars(8, "x"), Chars(8, "y")}

\* where the provider knows the name drawn first: nowhere, in the project's
\* resource group, or in somebody else's (account names are global)
Taken == {"nowhere", "own group", "elsewhere"}

\* _create_storage_account: the name it returns or the error it raises, the
\* names it drew, and its calls
_create_storage_account(project_name, suffix, taken, lookup_fails) ==
    LET storage_name == StorageName(project_name, suffix)
    IN  IF lookup_fails
        THEN [returned |-> None, raised |-> "lookup failed",
              drawn |-> <<storage_name>>,
              calls |-> <<"storage_accounts.get_properties">>]
        ELSE IF taken = "own group"
        THEN [returned |-> storage_name, raised |-> None,
              drawn |-> <<storage_name>>,
              calls |-> <<"storage_accounts.get_properties">>]
        ELSE [returned |-> IF taken = "elsewhere" THEN None ELSE storage_name,
              raised |-> IF taken = "elsewhere" THEN "StorageAccountAlreadyTaken"
                                               ELSE None,
              drawn |-> <<storage_name>>,
              calls |-> <<"storage_accounts.get_properties",
                          "storage_accounts.begin_create">>]

ApplyCreateStorageAccount ==
    /\ fn.name = "_create_storage_account"
    /\ fn.out = <<>>
    /\ fn' = [fn EXCEPT !.out =
                 <<_create_storage_account(fn.in[1], fn.in[2], fn.in[3], fn.in[4])>>]
    /\ UNCHANGED <<prov, ops, vmSpec, file, hostFile, run, pc, cmd, config, state,
                   loc, calls, logs, exitCode, startFile, external, hist, other>>

FnCalls ==
    {[name |-> "_get_resource_names", in |-> <<a, b>>, out |-> <<>>] :
        a \in ProjectIds, b \in ProjectIds}
    \cup {[name |-> "VMConfig", in |-> <<a, f>>, out |-> <<>>] :
            a \in CommandLines, f \in ConfigFiles}
    \cup {[name |-> "_create_storage_account", in |-> <<p, x, t, l>>, out |-> <<>>] :
            p \in ProjectIds, x \in Suffixes, t \in Taken, l \in BOOLEAN}

FnInit ==
    /\ Fresh
    /\ other = NoProcess
    /\ fn \in FnCalls

FnNext ==
    \/ ApplyNames
    \/ ApplyVMConfig
    \/ ApplyCreateStorageAccount

FnSpec == FnInit /\ [][FnNext]_vars



(***************************************************************************)
(* Properties                                                              *)
(***************************************************************************)

HasCall(c) == \E i \in 1..Len(calls) : calls[i] = c

MutatingCalls ==
    {"resource_groups.create_or_update", "resource_groups.begin_delete",
     "virtual_networks.begin_create_or_update",
     "network_security_groups.begin_create_or_update",
     "public_ip_addresses.begin_create_or_update",
     "network_interfaces.begin_create_or_update",
     "virtual_machines.begin_create_or_update", "virtual_machines.begin_delete",
     "storage_accounts.begin_create", "blob_client.upload_blob",
     "virtual_machine_extensions.begin_create_or_update"}

IsRecord(f) == f /= NoFile /\ f /= Corrupt /\ f /= NoState
FileTrue == IsRecord(file) /\ file.vm_exists
FileFalse == IsRecord(file) /\ ~file.vm_exists
MemTrue == IsRecord(state) /\ state.vm_exists
MemFalse == IsRecord(state) /\ ~state.vm_exists
StartPhase == IF IsRecord(startFile) THEN Phase(json_load(startFile)) ELSE "Absent"

\* C1: a create whose disk check found the disk at the provider fails with the
\* error that recommends recreate, and submits no instance creation
C1_CreateFailsWhenDiskExists ==
    (cmd = "create" /\ loc.existing_disk) =>
        /\ pc = "exited"
        /\ exitCode = 1
        /\ "ValueError: disk already exists, use recreate" \in logs
        /\ ~HasCall("virtual_machines.begin_create_or_update")

\* C2: a create started while a state record exists (DiskOnly or Running) is
\* rejected at its first check as already provisioned: it issues no mutating
\* provider call and the state file stays as it was
C2_CreateRejectedWhenStateExists ==
    (cmd = "create" /\ IsRecord(startFile) /\ pc /= "killed") =>
        /\ pc \in {"c_check", "exited"}
        /\ pc = "exited" =>
              /\ exitCode = 1
              /\ "ValueError: VM already exists, use recreate" \in logs
        /\ \A i \in 1..Len(calls) : calls[i] \notin MutatingCalls
        /\ file = startFile

\* C3: in the steps of a running invocation, vm_exists, in the state file and
\* in self.state, becomes true only in a create or recreate whose last awaited
\* handle is the VM creation, ended well, and goes from true to false only in a
\* destroy-vm whose last awaited handle is the VM deletion, ended well
C3_ExistsFlagFollowsAwait ==
    [][ /\ (Running /\ FileTrue' /\ ~FileTrue) =>
              loc'.awaited = "vm_create" /\ cmd \in {"create", "recreate"}
        /\ (Running /\ FileFalse' /\ FileTrue) =>
              loc'.awaited = "vm_delete" /\ cmd = "destroy-vm"
        /\ (Running /\ MemTrue' /\ ~MemTrue) =>
              loc'.awaited = "vm_create" /\ cmd \in {"create", "recreate"}
        /\ (Running /\ MemFalse' /\ MemTrue) =>
              loc'.awaited = "vm_delete" /\ cmd = "destroy-vm" ]_vars

\* a destroy-vm has flipped the flag of a Running record after its deletion ended
C3_Witness ==
    /\ cmd = "destroy-vm" /\ pc = "exited"
    /\ loc.awaited = "vm_delete"
    /\ IsRecord(startFile) /\ startFile.vm_exists
    /\ FileFalse

\* C4: after create from no state file, destroy-vm and recreate, each successful,
\* the instance spec that recreate submitted attaches the disk of the name and id
\* that the create recorded, and the state file still holds that name and id
C4_DiskIdentityRoundTrips ==
    /\ hist.stage >= 1 =>
          /\ IsRecord(file)
          /\ file.disk_name = hist.created.disk_name
          /\ file.disk_resource_id = hist.created.disk_resource_id
    /\ hist.stage = 3 =>
          /\ vmSpec.create_option = "attach"
          /\ vmSpec.disk_name = hist.created.disk_name
          /\ vmSpec.disk_id = hist.created.disk_resource_id
          /\ hist.created.disk_resource_id /= ""

C4_Witness == hist.stage = 3 /\ pc = "exited" /\ exitCode = 0 /\ FileTrue

\* C5: a state with vm_exists = true, in the file or in memory, has a VM id, a
\* disk id, a network interface id and a public address id, none of them empty
HasReferences(s) ==
    /\ s.vm_resource_id \notin {"", None, JsonNull}
    /\ s.disk_resource_id /= ""
    /\ s.network_interface_id /= ""
    /\ s.public_ip_id /= ""

C5_ExistingVmHasReferences ==
    /\ FileTrue => HasReferences(file)
    /\ MemTrue => HasReferences(state)

C5_Witness == cmd = "recreate" /\ loc.awaited = "vm_create" /\ FileTrue /\ MemTrue

\* C6 as claimed: every self.state with vm_exists = false, the temporary state of
\* create included, names a disk and network resources that exist at the provider
\* and has a disk id that recreate can use
ResourcesThere == prov.disk /\ prov.vnet /\ prov.nsg /\ prov.pip /\ prov.nic

C6_AnyDiskOnlyStateIsReusable ==
    MemFalse => ResourcesThere /\ state.disk_resource_id /= ""

\* C6 as amended: a state with vm_exists = false that is in the state file (only
\* destroy-vm writes one) names a disk and network resources that exist at the
\* provider and holds the id of that disk, as long as nothing outside the manager
\* has changed the resources and no deletion of the resource group was accepted
C6_SavedDiskOnlyStateIsReusable ==
    (FileFalse /\ ~external /\ ~hist.groupDelete) =>
        /\ ResourcesThere
        /\ file.disk_resource_id = DiskResourceId(file.resource_group, file.disk_name)
        /\ file.disk_resource_id /= ""

C6_Witness ==
    /\ FileFalse /\ ~external /\ ~hist.groupDelete
    /\ cmd = "destroy-vm" /\ pc = "exited" /\ MemFalse

\* C7: in the invocation after a create that was killed between the submission of
\* the instance and the save, info does not report "no state" and recreate brings
\* the state file to Running
C7_ReattachAfterKilledCreate ==
    (hist.killedInCreate = "next" /\ pc = "exited") =>
        /\ cmd = "info" => loc.info /= "No VM state found"
        /\ cmd = "recreate" => exitCode = 0 /\ FileTrue

\* C8: an invocation that finds a state file it cannot parse logs a warning, goes
\* on with no state, and does not abort
C8_CorruptStateIsNoState ==
    (startFile = Corrupt /\ pc /= "killed") =>
        /\ "warning: could not load state file" \in logs
        /\ "traceback: AttributeError" \notin logs
        /\ state = NoState

\* C9: a destroy-vm started in Running that returned True and saved its state made
\* one provider call, the VM deletion, awaited it, and left in the file the record
\* it found with vm_exists false and vm_resource_id null, every other field as found
C9_DestroyKeepsAllButTheVm ==
    (/\ cmd = "destroy-vm" /\ pc = "exited" /\ StartPhase = "Running"
     /\ "VM destroyed, disk preserved" \in logs
     /\ "error: could not save state" \notin logs) =>
        /\ calls = <<"virtual_machines.begin_delete">>
        /\ loc.awaited = "vm_delete"
        /\ file = [startFile EXCEPT !.vm_exists = FALSE, !.vm_resource_id = JsonNull]

C9_Witness ==
    /\ cmd = "destroy-vm" /\ pc = "exited" /\ StartPhase = "Running"
    /\ "VM destroyed, disk preserved" \in logs
    /\ "error: could not save state" \notin logs
    /\ IsRecord(file) /\ file.created_at = startFile.created_at

\* C10: a destroy-vm started in Absent or DiskOnly issues no provider call and
\* leaves the state file as it found it; when the file loaded, it reports that
\* there is nothing to destroy
C10_DestroyWithoutVmIsNoOp ==
    (cmd = "destroy-vm" /\ StartPhase \in {"Absent", "DiskOnly"}) =>
        /\ calls = <<>>
        /\ file = startFile
        /\ pc \in {"d_check", "exited", "killed"}
        /\ (pc = "exited" /\ startFile /= Corrupt) =>
              "warning: no VM exists to destroy" \in logs /\ exitCode = 0

C10_Witness ==
    /\ cmd = "destroy-vm" /\ pc = "exited" /\ StartPhase = "DiskOnly"
    /\ "warning: no VM exists to destroy" \in logs

\* C11: a recreate in DiskOnly whose disk check runs while the disk of the record
\* is gone from the provider ends there with the disk-not-found error and exit
\* code 1; such a recreate has submitted no instance creation and the state file
\* is the DiskOnly record it found
C11_RecreateFailsWhenDiskMissing ==
    [][ /\ (pc = "r_disk" /\ pc' \notin {"r_disk", "killed"} /\ ~prov.disk) =>
              /\ pc' = "exited"
              /\ exitCode' = 1
              /\ "ValueError: disk not found" \in logs'
        /\ (cmd' = "recreate" /\ "ValueError: disk not found" \in logs') =>
              /\ ~HasCall("virtual_machines.begin_create_or_update")'
              /\ file' = startFile'
              /\ FileFalse' ]_vars

C11_Witness ==
    /\ cmd = "recreate" /\ pc = "exited" /\ StartPhase = "DiskOnly"
    /\ ~prov.disk
    /\ "ValueError: disk not found" \in logs
    /\ calls = <<"disks.get">>

\* C12: a recreate started with no state file issues no provider call and
\* creates no state file; it ends with the no-state error and exit code 1
C12_RecreateInAbsentIsRejected ==
    (cmd = "recreate" /\ startFile = NoFile) =>
        /\ calls = <<>>
        /\ file = NoFile
        /\ pc \in {"r_check", "exited", "killed"}
        /\ pc = "exited" =>
              exitCode = 1 /\ "ValueError: no state found" \in logs

C12_Witness ==
    /\ cmd = "recreate" /\ startFile = NoFile /\ pc = "exited"
    /\ "ValueError: no state found" \in logs
    /\ prov.disk

\* C13: a recreate started in Running submits no mutating provider call and
\* leaves the state file and self.state as loaded; recreate_vm_with_disk warns
\* and returns before any provider call (the lookups that follow are those of
\* main()'s get_vm_info and address poll)
C13_RecreateInRunningIsNoOp ==
    (cmd = "recreate" /\ StartPhase = "Running" /\ pc /= "killed") =>
        /\ file = startFile
        /\ state = json_load(startFile)
        /\ \A i \in 1..Len(calls) : calls[i] \notin MutatingCalls
        /\ pc /= "r_check" =>
              /\ loc.returned = 0
              /\ "warning: VM already exists" \in logs
        /\ pc = "exited" => exitCode = 0

C13_Witness ==
    /\ cmd = "recreate" /\ StartPhase = "Running" /\ pc = "exited"
    /\ loc.returned = 0 /\ file = startFile /\ FileTrue

\* C14: a destroy-all started with a state record lists the group's resources,
\* then submits the deletion of the resource group; the manager removes the state
\* file only in the step that follows the deletion's good end, with the resource
\* group gone, and then holds no state; when the deletion is refused or ends
\* badly the state file is the record found and the failure is reported
DestroyAllCalls == <<"resources.list_by_resource_group", "resource_groups.begin_delete">>

C14_DestroyAllDeletesRecordLast ==
    [][ /\ (Running /\ IsRecord(file) /\ file' = NoFile) =>
              /\ cmd = "destroy-all" /\ pc = "a_await"
              /\ ops["rg_delete"] = "ok" /\ ~prov.rg
              /\ calls = DestroyAllCalls
        /\ (cmd' = "destroy-all" /\ IsRecord(startFile') /\ Running') =>
              file' = startFile'
        /\ (cmd' = "destroy-all" /\ IsRecord(startFile') /\ pc' = "exited") =>
              /\ calls' = DestroyAllCalls
              /\ \/ /\ file' = NoFile /\ state' = NoState
                    /\ loc'.awaited = "rg_delete"
                    /\ "all resources destroyed" \in logs'
                 \/ /\ file' = startFile'
                    /\ "error: failed to destroy all resources" \in logs'
                    /\ "all resources destroyed" \notin logs'
        /\ (pc = "a_await" /\ pc' = "exited" /\ ops["rg_delete"] = "failed") =>
              /\ file' = file
              /\ "error: failed to destroy all resources" \in logs' ]_vars

C14_Witness ==
    /\ cmd = "destroy-all" /\ pc = "exited" /\ StartPhase = "DiskOnly"
    /\ file = NoFile /\ state = NoState /\ ~prov.rg
    /\ "all resources destroyed" \in logs

\* C15: the destroy-all that follows a destroy-all which deleted the resource
\* group and the state file finds no state file, issues no provider call, leaves
\* no state file and ends without error, exit code 0
C15_DestroyAllTwice ==
    hist.allGone = "again" =>
        /\ cmd = "destroy-all"
        /\ startFile = NoFile /\ file = NoFile
        /\ calls = <<>>
        /\ pc \in {"a_check", "exited", "killed"}
        /\ pc = "exited" =>
              /\ exitCode = 0
              /\ logs = {"warning: no state found, nothing to destroy"}

C15_Witness ==
    /\ hist.allGone = "again" /\ pc = "exited" /\ exitCode = 0
    /\ file = NoFile /\ ~prov.rg

\* C16: an info started with no state file returns the "No VM state found"
\* result and issues no provider call
C16_InfoInAbsentAsksNothing ==
    (cmd = "info" /\ startFile = NoFile) =>
        /\ calls = <<>>
        /\ pc = "exited" =>
              /\ loc.info = "No VM state found"
              /\ exitCode = 0

C16_Witness ==
    /\ cmd = "info" /\ startFile = NoFile /\ pc = "exited"
    /\ loc.info = "No VM state found"
    /\ prov.vm

\* C17: an info, whatever the state file it found and whatever its lookups
\* answer, issues no mutating provider call and leaves the state file as found;
\* its own step changes nothing at the provider and nothing of self.state; it
\* writes generated/host only when the state it loaded has vm_exists = true
C17_InfoIsReadOnly ==
    [][ /\ cmd' = "info" =>
              /\ file' = startFile'
              /\ \A i \in 1..Len(calls') : calls'[i] \notin MutatingCalls
        /\ (pc = "i_info" /\ pc' = "exited") =>
              /\ prov' = prov /\ ops' = ops /\ vmSpec' = vmSpec
              /\ state' = state
        /\ (cmd = "info" /\ hostFile' /= hostFile) =>
              /\ StartPhase = "Running"
              /\ MemTrue ]_vars

C17_Witness ==
    /\ cmd = "info" /\ pc = "exited" /\ StartPhase = "Running"
    /\ hostFile = run
    /\ loc.info = "state, power_state, public_ip"
    /\ file = startFile

\* C18: the address poll ends: a process inside it leaves it (LiveSpec); when
\* create's poll runs out of time it returns with no address, raising nothing,
\* and create goes on to await the instance; a create whose poll ran out and
\* whose instance creation ended well exits with code 0 and, its save having
\* succeeded, the state file in phase Running
CreateGoesOnAfterPoll ==
    /\ (/\ cmd = "create" /\ pc = "poll" /\ loc.poll_ret = "c_await"
        /\ pc' \notin {"poll", "killed"}) =>
          /\ pc' = "c_await"
          /\ exitCode' = -1
          /\ state' = state
    /\ (/\ cmd' = "create" /\ pc' = "exited"
        /\ "warning: IP not available yet, will continue VM setup" \in logs'
        /\ loc'.awaited = "vm_create") =>
          /\ exitCode' = 0
          /\ ("error: could not save state" \notin logs' => FileTrue')

C18_PollingEndsAndCreateGoesOn ==
    /\ (pc = "poll") ~> (pc /= "poll")
    /\ [][CreateGoesOnAfterPoll]_vars

C18_Witness ==
    /\ cmd = "create" /\ pc = "exited" /\ exitCode = 0
    /\ "warning: IP not available yet, will continue VM setup" \in logs
    /\ "warning: address not available yet" \in logs
    /\ loc.awaited = "vm_create"
    /\ FileTrue

\* C19 as claimed: a create in whose bootstrap a step failed (key generation,
\* upload, submission of the extension, its await, or the status check) has the
\* manual instructions in its log, goes on, and exits with code 0 and, its save
\* having succeeded, the state file in phase Running
FailedBeforeStatusCheck ==
    loc.boot_error \in {"key generation failed", "upload failed",
                        "extension submission failed", "extension deployment failed"}

StatusCheckFailed ==
    loc.ext_view /= NotRead /\ ExtensionStatusError(loc.ext_view) /= None

CreateGoesOnAfterBootstrap ==
    /\ pc \in {"c_save", "m_info", "poll", "m_done", "exited"}
    /\ pc = "exited" =>
          /\ exitCode = 0
          /\ "error: could not save state" \notin logs => FileTrue

C19_AnyBootstrapFailureLogsRemedy ==
    (cmd = "create" /\ (FailedBeforeStatusCheck \/ StatusCheckFailed)) =>
        /\ "info: manual installation instructions" \in logs
        /\ CreateGoesOnAfterBootstrap

\* C19 as amended: a failure of the key generation, the upload, the submission
\* of the extension or its await is logged as a warning with the manual
\* instructions; when the status query itself raises, a warning that the status
\* could not be checked is logged, without the instructions; after any failure
\* of the bootstrap, the status check included, create goes on, and exits with
\* code 0 and, its save having succeeded, the state file in phase Running
C19_BootstrapFailureIsNotFatal ==
    /\ (cmd = "create" /\ FailedBeforeStatusCheck) =>
          /\ ("warning: SSH server setup failed: " \o loc.boot_error) \in logs
          /\ "info: manual installation instructions" \in logs
    /\ (cmd = "create" /\ loc.ext_view.kind = "raises") =>
          /\ "warning: could not check extension status: ProviderError" \in logs
          /\ "info: manual installation instructions" \notin logs
    /\ (cmd = "create" /\ (FailedBeforeStatusCheck \/ StatusCheckFailed)) =>
          CreateGoesOnAfterBootstrap

C19_Witness ==
    /\ cmd = "create" /\ pc = "exited" /\ exitCode = 0
    /\ loc.boot_error = "extension deployment failed"
    /\ "info: manual installation instructions" \in logs
    /\ FileTrue

\* C20: a create whose status check, made after the extension's handle was
\* awaited, read an instance view with a status at level Error has the error
\* "SSH extension failed: <message of the first such status>" as the failure of
\* its bootstrap, and has not logged that the deployment completed
C20_ErrorStatusFailsTheBootstrap ==
    (/\ cmd = "create"
     /\ loc.ext_view.kind = "view"
     /\ ErrorStatuses(loc.ext_view.statuses) /= <<>>) =>
        /\ loc.boot_error = "SSH extension failed: "
                                \o ErrorStatuses(loc.ext_view.statuses)[1].message
        /\ "SSH server extension deployment completed" \notin logs

\* C21: a create whose configuration lacks the administrator's name or password,
\* or has an empty project name, issues no provider call at all, and ends with
\* the configuration error and exit code 1
ConfigurationInvalid(cfg) ==
    \/ cfg.admin_username = ""
    \/ cfg.admin_password = ""
    \/ Len(cfg.project_name) = 0

C21_InvalidConfigurationCallsNothing ==
    (cmd = "create" /\ ConfigurationInvalid(config) /\ pc /= "killed") =>
        /\ calls = <<>>
        /\ pc \in {"c_check", "c_validate", "exited"}
        /\ pc = "exited" =>
              /\ exitCode = 1
              /\ "ValueError: configuration validation failed" \in logs

\* C22: an invocation that loaded a record whose resource group is not the one
\* derived from the configuration issues no provider call (destroy-vm, recreate,
\* destroy-all, info and list-resources name the record's group in every call
\* they make) and ends with the mismatch error and exit code 1
RecordGroupMismatch ==
    /\ IsRecord(startFile)
    /\ ~_validate_resource_group_consistency(config, startFile.resource_group)

C22_GroupMismatchAborts ==
    (/\ cmd \in {"destroy-vm", "recreate", "destroy-all", "info", "list-resources"}
     /\ RecordGroupMismatch /\ pc /= "killed") =>
        /\ calls = <<>>
        /\ pc = "exited" =>
              /\ exitCode = 1
              /\ "ValueError: resource group validation failed" \in logs

\* C23: an invocation ends with exit code 0 or 1, and with 1 when its operation
\* failed: when its handler raised, and when the deletion of a destroy-vm or of
\* a destroy-all was refused or ended badly
DeletionFailed ==
    \/ cmd = "destroy-vm" /\ "error: failed to destroy VM" \in logs
    \/ cmd = "destroy-all" /\ "error: failed to destroy all resources" \in logs

HandlerRaised ==
    logs \cap {"ProviderError", "ValueError: VM already exists, use recreate",
               "ValueError: configuration validation failed",
               "ValueError: disk already exists, use recreate",
               "ValueError: disk not found", "ValueError: no state found",
               "ValueError: resource group validation failed"} /= {}

C23_ExitCodeTellsSuccess ==
    pc = "exited" =>
        /\ exitCode \in {0, 1}
        /\ HandlerRaised => exitCode = 1
        /\ DeletionFailed => exitCode = 1

\* C24: in an invocation whose _save_state failed, the failure is logged and
\* self.state is the state that was to be saved: after create and recreate the
\* Running state with its references, after destroy-vm the state without VM
SaveFailed == "error: could not save state" \in logs

C24_FailedSaveKeepsStateInMemory ==
    (SaveFailed /\ pc /= "killed") =>
        /\ cmd \in {"create", "recreate"} => MemTrue /\ HasReferences(state)
        /\ cmd = "destroy-vm" => MemFalse /\ state.vm_resource_id = None

\* C25: when a create or a recreate has the creation of the resource group, of
\* a network resource or of the instance refused, or awaits one that ended
\* badly, it ends there with the provider's error and exit code 1; a create or
\* recreate that ended so has submitted no deletion, and the state file is as
\* the invocation found it (the calls of the bootstrap are C19's)
DeletionCalls == {"virtual_machines.begin_delete", "resource_groups.begin_delete"}

AwaitedKind ==
    IF pc = "net_await" THEN NetKinds[loc.net_i] ELSE "vm_create"

ResourceCallFails ==
    /\ cmd \in {"create", "recreate"}
    /\ pc' \notin {pc, "killed"}
    /\ \/ /\ pc \in {"net_await", "c_await", "r_await"}
          /\ ops[AwaitedKind] = "failed"
       \/ pc = "net_submit" /\ pc' /= "net_await"
       \/ pc \in {"c_submit", "r_submit"} /\ pc' /= "poll"
       \/ /\ pc = "c_rg"
          /\ calls'[Len(calls')] = "resource_groups.create_or_update"
          /\ ~prov'.rg

FailsWithoutRollback ==
    /\ ResourceCallFails =>
          /\ pc' = "exited"
          /\ exitCode' = 1
          /\ "ProviderError" \in logs'
    /\ (Running /\ pc' = "exited" /\ cmd \in {"create", "recreate"}
           /\ "ProviderError" \in logs') =>
          /\ \A i \in 1..Len(calls') : calls'[i] \notin DeletionCalls
          /\ file' = startFile'
          /\ \A k \in DOMAIN prov : prov[k] => prov'[k]

C25_ProviderFailureIsFatalWithoutRollback == [][FailsWithoutRollback]_vars

C25_Witness ==
    /\ cmd = "create" /\ pc = "exited" /\ exitCode = 1
    /\ "ProviderError" \in logs
    /\ HasCall("virtual_machines.begin_create_or_update")
    /\ prov.vnet /\ prov.nsg /\ prov.pip /\ prov.nic /\ ~prov.vm
    /\ file = NoFile

\* C26: a running invocation holds at most one handle that it has not awaited;
\* while it holds one, the only provider calls it issues are lookups of the
\* public address (no mutating call is submitted before the handle is awaited);
\* and it holds none when its handler has returned or the process has exited
NewCalls == SubSeq(calls', Len(calls) + 1, Len(calls'))

OneHandleAtATime ==
    /\ Cardinality(loc'.handles) <= 1
    /\ (Running /\ loc.handles /= {} /\ Len(calls') > Len(calls)) =>
          \A i \in 1..Len(NewCalls) : NewCalls[i] = "public_ip_addresses.get"
    /\ (pc' = "exited" \/ loc'.returned >= 0) => loc'.handles = {}

C26_OneMutatingOperationInFlight == [][OneHandleAtATime]_vars

C26_Witness ==
    /\ cmd = "create" /\ pc = "poll"
    /\ loc.handles = {"vm_create"} /\ ops["vm_create"] = "pending"
    /\ loc.attempts = 1
    /\ calls[Len(calls)] = "public_ip_addresses.get"
    /\ calls[Len(calls) - 1] = "virtual_machines.begin_create_or_update"

\* C27: a create from no state file issues its provider calls in the order
\* connectivity test of the validation, resource group (get, and create when
\* the get fails), disk check, virtual network, security group, public address,
\* network interface, instance submission, address lookups of the poll; the
\* instance is awaited after the poll and before any call of the bootstrap; the
\* state file is written in one step only, the save that follows the bootstrap,
\* and a save that succeeds writes the Running record
RequiredCalls ==
    <<"resource_groups.list", "resource_groups.get", "disks.get",
      "virtual_networks.begin_create_or_update",
      "network_security_groups.begin_create_or_update",
      "public_ip_addresses.begin_create_or_update",
      "network_interfaces.begin_create_or_update",
      "virtual_machines.begin_create_or_update">>

BootstrapCalls ==
    <<"storage_accounts.begin_create", "blob_client.upload_blob",
      "virtual_machine_extensions.begin_create_or_update",
      "virtual_machine_extensions.get">>

IsPrefix(p, q) == Len(p) <= Len(q) /\ SubSeq(q, 1, Len(p)) = p

InCreateOrder(cs) ==
    LET core == SelectSeq(cs, LAMBDA c :
                    c \notin {"resource_groups.create_or_update",
                               "public_ip_addresses.get"})
    IN  /\ IsPrefix(RequiredCalls, core)
        /\ IsPrefix(SubSeq(core, Len(RequiredCalls) + 1, Len(core)), BootstrapCalls)
        /\ \A i \in 1..Len(cs) :
              /\ cs[i] = "resource_groups.create_or_update" =>
                    i = 3 /\ cs[2] = "resource_groups.get"
              /\ cs[i] = "public_ip_addresses.get" =>
                    i > 1 /\ cs[i - 1] \in {"virtual_machines.begin_create_or_update",
                                             "public_ip_addresses.get"}

CreateFromAbsent == cmd = "create" /\ config = ValidConfig /\ startFile = NoFile

CreateStepsInOrder ==
    /\ (CreateFromAbsent' /\ pc' = "c_ssh" /\ pc /= "c_ssh") =>
          /\ pc = "c_await"
          /\ loc'.awaited = "vm_create" /\ loc'.handles = {}
          /\ IsPrefix(RequiredCalls,
                      SelectSeq(calls', LAMBDA c :
                          c \notin {"resource_groups.create_or_update",
                                     "public_ip_addresses.get"}))
          /\ \A i \in 1..Len(calls') :
                \A j \in 1..Len(BootstrapCalls) : calls'[i] /= BootstrapCalls[j]
    /\ (CreateFromAbsent' /\ pc' \notin {"killed", "idle"} /\ file' /= file) =>
          /\ pc = "c_save" /\ pc' = "m_info"
          /\ file = NoFile
          /\ InCreateOrder(calls')
          /\ loc'.returned = Len(calls')
          /\ "error: could not save state" \notin logs' =>
                FileTrue' /\ state' = json_load(file')
    /\ (CreateFromAbsent' /\ pc' = "exited" /\ exitCode' = 0) =>
          /\ InCreateOrder(SubSeq(calls', 1, loc'.returned))
          /\ "error: could not save state" \notin logs' => FileTrue'

C27_CreateStepsInOrder == [][CreateStepsInOrder]_vars

C27_Witness ==
    /\ CreateFromAbsent /\ pc = "exited" /\ exitCode = 0
    /\ FileTrue
    /\ calls[3] = "resource_groups.create_or_update"
    /\ HasCall("virtual_machine_extensions.get")
    /\ calls[10] = "public_ip_addresses.get"
    /\ loc.attempts = 0 /\ loc.public_ip

\* C28: a step of the manager that finds a record in the state file and leaves
\* a record there leaves its vm_name, resource_group, disk_name and created_at
\* as they were
IdentityFields(r) == <<r.vm_name, r.resource_group, r.disk_name, r.created_at>>

IdentityKept ==
    (Running /\ IsRecord(file) /\ IsRecord(file')) =>
        IdentityFields(file') = IdentityFields(file)

C28_IdentityFieldsNeverChange == [][IdentityKept]_vars

\* C29: a recreate whose interface check runs while the interface is gone from
\* the provider goes on to create the network stack from its first resource;
\* it comes to the submission of the instance from the await of the last
\* network resource, with the four network calls made in order, no handle
\* held and the interface at the provider; and the instance spec it submits
\* names, as its interface, the id of the interface that is at the provider
\* (the provider's side is stated for a group that no deletion accepted from an
\* earlier destroy-all is still emptying)
NicAtProvider(id) ==
    LET names == _get_resource_names(ProjectName)
    IN  /\ prov.nic
        /\ id = ResourceId(names.resource_group, "Microsoft.Network",
                           "networkInterfaces", names.nic_name)

NetworkCalls == [i \in 1..Len(NetKinds) |-> NetCall(NetKinds[i])]

RecreateRestoresNetwork ==
    /\ (cmd = "recreate" /\ pc = "r_nic" /\ pc' \notin {"r_nic", "killed"}
                          /\ ~prov.nic) =>
          /\ pc' = "net_submit"
          /\ loc'.net_i = 1 /\ loc'.ret = "r_submit"
    /\ (cmd = "recreate" /\ pc = "net_await" /\ pc' = "r_submit") =>
          /\ SubSeq(calls', Len(calls') - 3, Len(calls')) = NetworkCalls
          /\ loc'.handles = {}
          /\ ~hist.groupDelete =>
                prov'.vnet /\ prov'.nsg /\ prov'.pip /\ prov'.nic
    /\ (cmd = "recreate" /\ pc = "r_submit" /\ pc' = "poll") =>
          /\ ~hist.groupDelete => NicAtProvider(vmSpec'.nic_id)
          /\ calls'[Len(calls') - 1] \in {"network_interfaces.get",
                                          "network_interfaces.begin_create_or_update"}

C29_RecreateRestoresNetwork == [][RecreateRestoresNetwork]_vars

C29_Witness ==
    /\ cmd = "recreate" /\ pc = "exited" /\ exitCode = 0
    /\ StartPhase = "DiskOnly" /\ FileTrue
    /\ SubSeq(calls, 1, 7) = <<"disks.get", "network_interfaces.get">>
                                 \o NetworkCalls
                                 \o <<"virtual_machines.begin_create_or_update">>
    /\ NicAtProvider(vmSpec.nic_id)
    /\ external /\ ~hist.groupDelete

\* C30: after create from no state file, destroy-vm and recreate, each
\* successful, the state file holds a VM id that differs from the one the create
\* saved, and the disk id that the create saved
C30_RecreatedInstanceHasNewReference ==
    hist.stage = 3 =>
        /\ IsRecord(file)
        /\ file.vm_resource_id /= hist.created.vm_resource_id
        /\ file.disk_resource_id = hist.created.disk_resource_id

\* C31: the names that _get_resource_names derives from a project name are the
\* eight names of the resource set, none empty and no two equal, and two
\* managers built for the same project name derive the same names
NameFields ==
    {"resource_group", "vm_name", "disk_name", "nic_name", "pip_name", "nsg_name",
     "vnet_name", "subnet_name"}

NamesApplied == fn.name = "_get_resource_names" /\ fn.out /= <<>>

C31_NamesAreDistinct ==
    NamesApplied =>
        /\ \A i \in 1..2 :
              LET n == fn.out[i].names
              IN  /\ DOMAIN n = NameFields
                  /\ \A f \in NameFields : n[f] /= ""
                  /\ \A f, g \in NameFields : f /= g => n[f] /= n[g]
        /\ fn.in[1] = fn.in[2] => fn.out[1].names = fn.out[2].names

C31_Witness ==
    /\ NamesApplied
    /\ fn.in[1] = <<>> /\ fn.in[2] = <<>>
    /\ fn.out[1].names.resource_group = "-rg"

\* C32: when the account name that _create_storage_account drew is taken in
\* somebody else's resource group, it draws another suffix and raises nothing
StorageApplied == fn.name = "_create_storage_account" /\ fn.out /= <<>>

C32_CollisionDrawsAnotherSuffix ==
    (StorageApplied /\ fn.in[3] = "elsewhere" /\ ~fn.in[4]) =>
        /\ fn.out[1].raised = None
        /\ Len(fn.out[1].drawn) >= 2

\* C33: each option of the configuration main() builds is the value the command
\* line gave (an empty project name included), else the value of config.yaml,
\* else the built-in default
ConfigApplied == fn.name = "VMConfig" /\ fn.out /= <<>>

C33_OverrideThenFileThenDefault ==
    ConfigApplied =>
        LET args == fn.in[1]
            config_data == fn.in[2]
            cfg == fn.out[1]
        IN  /\ cfg.project_name =
                  IF args.project_name /= NotGiven THEN args.project_name
                  ELSE IF config_data.project_name /= NotGiven
                       THEN config_data.project_name
                       ELSE DefaultProject
            /\ cfg.install_wsl =
                  IF args.install_wsl THEN "True"
                  ELSE IF config_data.install_wsl /= None
                       THEN config_data.install_wsl
                       ELSE "False"
            /\ cfg.spot =
                  IF args.no_spot THEN "False"
                  ELSE IF config_data.spot /= None THEN config_data.spot
                       ELSE "True"

\* C34: with invocations one at a time, a state store that works and nobody but
\* the manager at the resources, whenever an invocation has exited with code 0
\* and its handler has not reported a failed deletion, the state file says
\* vm_exists exactly when the instance is at the provider (no record: no
\* instance)
C34_RecordFollowsProvider ==
    (pc = "exited" /\ exitCode = 0 /\ ~DeletionFailed) => (FileTrue <=> prov.vm)

\* C35: a destroy-vm that ends at its deletion call, refused at submission or
\* failed on await, has logged the failure, and self.state and the state file are
\* what they were before that step: both with vm_exists true and with the same
\* VM resource id
C35_FailedDeletionKeepsRecord ==
    [][(pc \in {"d_submit", "d_await"} /\ pc' = "exited") =>
          /\ "error: failed to destroy VM" \in logs'
          /\ state' = state /\ file' = file
          /\ MemTrue' /\ FileTrue'
          /\ state'.vm_resource_id = json_load(file').vm_resource_id]_vars

C35_Witness ==
    /\ cmd = "destroy-vm" /\ pc = "exited" /\ DeletionFailed
    /\ calls = <<"virtual_machines.begin_delete">>
    /\ MemTrue /\ FileTrue /\ state = json_load(startFile) /\ prov.vm

\* C37: a destroy-all that found no state file issues no provider call and holds
\* no operation handle, and no step of it changes anything at the provider or
\* submits anything: a resource group that is at the provider stays there; it
\* ends with the "nothing to destroy" warning and exit code 0
DestroyAllWithoutRecord == cmd = "destroy-all" /\ startFile = NoFile

C37_DestroyAllWithoutRecordCallsNothing ==
    /\ [](DestroyAllWithoutRecord =>
            /\ calls = <<>> /\ loc.handles = {} /\ file = NoFile
            /\ pc \in {"a_check", "exited", "killed"}
            /\ pc = "exited" =>
                  /\ exitCode = 0
                  /\ "warning: no state found, nothing to destroy" \in logs)
    /\ [][(DestroyAllWithoutRecord /\ pc = "a_check" /\ pc' = "exited") =>
             /\ prov' = prov /\ ops' = ops
             /\ prov.rg => prov'.rg]_vars

C37_Witness ==
    /\ DestroyAllWithoutRecord /\ pc = "exited" /\ exitCode = 0
    /\ calls = <<>>
    /\ prov.rg /\ prov.disk /\ prov.vm

\* C38: two different project names have different state files and derive
\* different resource group names
C38_DistinctProjectsDistinctGroups ==
    (NamesApplied /\ fn.in[1] /= fn.in[2]) =>
        /\ fn.out[1].state_file /= fn.out[2].state_file
        /\ fn.out[1].names.resource_group /= fn.out[2].names.resource_group

\* C39: _install_ssh_server runs once in a create whose instance creation was
\* awaited, and nowhere else. Only a create is ever inside it or has made one of
\* its calls, and each of its calls at most once; before and at the await of the
\* instance none of its calls has been made. It is entered from the successful
\* await, and by every successful await, with no handle held and the state file
\* as the create found it; once entered, the invocation never comes back to the
\* await or to the entry; whatever happens inside, create goes on to the save, and
\* the save is reached from nowhere else
BootstrapSteps == {"c_ssh", "b_upload", "b_submit", "b_await", "b_status"}

BeforeBootstrap ==
    /\ cmd = "create"
    /\ \/ pc \in {"c_check", "c_validate", "c_rg", "c_disk", "net_submit",
                  "net_await", "c_submit", "c_await"}
       \/ pc = "poll" /\ loc.poll_ret = "c_await"

AfterInstanceAwait == cmd = "create" /\ Running /\ ~BeforeBootstrap

Times(c) == Cardinality({i \in 1..Len(calls) : calls[i] = c})

BootstrapInItsPlace ==
    /\ (cmd /= "create" /\ pc \notin {"idle", "killed"}) =>
          /\ pc \notin BootstrapSteps
          /\ \A j \in 1..Len(BootstrapCalls) : Times(BootstrapCalls[j]) = 0
    /\ Running => \A j \in 1..Len(BootstrapCalls) : Times(BootstrapCalls[j]) <= 1
    /\ BeforeBootstrap =>
          \A j \in 1..Len(BootstrapCalls) : Times(BootstrapCalls[j]) = 0

BootstrapOnce ==
    /\ (pc' = "c_ssh" /\ pc /= "c_ssh") =>
          /\ cmd = "create" /\ pc = "c_await" /\ ops["vm_create"] = "ok"
          /\ loc'.awaited = "vm_create" /\ loc'.handles = {}
          /\ file' = startFile
    /\ (pc = "c_await" /\ ops["vm_create"] = "ok" /\ pc' \notin {"c_await", "killed"}) =>
          pc' = "c_ssh"
    /\ (AfterInstanceAwait /\ Running') =>
          /\ AfterInstanceAwait'
          /\ pc' = "c_ssh" => pc = "c_ssh"
    /\ (pc \in BootstrapSteps /\ pc' \notin BootstrapSteps \cup {"killed"}) =>
          pc' = "c_save" /\ file' = startFile
    /\ (pc' = "c_save" /\ pc /= "c_save") => pc \in BootstrapSteps

C39_BootstrapOnceInCreate == []BootstrapInItsPlace /\ [][BootstrapOnce]_vars

C39_Witness ==
    /\ cmd = "create" /\ pc = "c_save" /\ file = NoFile
    /\ \A j \in 1..Len(BootstrapCalls) : Times(BootstrapCalls[j]) = 1
    /\ loc.awaited = "vm_create" /\ prov.vm

\* C36: under a provider that serves, a create that starts with no state file
\* and no disk ends, unless it is killed, with exit code 0 and a Running record
\* in the state file, whatever the address polling and the bootstrap gave
CreateEndedRunning ==
    /\ cmd = "create" /\ pc = "exited" /\ exitCode = 0
    /\ FileTrue /\ Phase(json_load(file)) = "Running"

C36_CreateFromAbsentEndsRunning ==
    (cmd = "create" /\ pc = "c_check") ~> (pc = "killed" \/ CreateEndedRunning)

C36_Witness ==
    /\ CreateEndedRunning
    /\ run = 2
    /\ ~loc.public_ip /\ loc.boot_error = "extension deployment failed"

\* C40: nothing keeps two creates of one project apart. A create that loaded no
\* state passes its first check whatever the other process has done and
\* whatever the state file holds by then; its save replaces whatever record is
\* in the file by its own; and nothing but a save changes the file: the record
\* is that of the process that saved last
OwnStep == other' = other /\ pc' /= pc

NoMutualExclusion ==
    /\ (OwnStep /\ pc = "c_check" /\ startFile = NoFile) => pc' = "c_validate"
    /\ (OwnStep /\ pc = "c_save") =>
          /\ IsRecord(file') /\ file'.vm_exists
          /\ file'.created_at = Now(run, 1)
          /\ state' = json_load(file')
    /\ file' /= file => OwnStep /\ pc = "c_save"

C40_LastWriterWins == [][NoMutualExclusion]_vars

BothSubmitted ==
    /\ other /= NoProcess
    /\ cmd = "create" /\ other.cmd = "create"
    /\ startFile = NoFile /\ other.startFile = NoFile
    /\ HasCall("virtual_machines.begin_create_or_update")
    /\ \E i \in 1..Len(other.calls) :
          other.calls[i] = "virtual_machines.begin_create_or_update"

C40_Witness ==
    /\ BothSubmitted
    /\ pc = "m_info" /\ other.pc = "m_info"
    /\ state.created_at = Now(run, 1)
    /\ other.state.created_at = Now(other.run, 1)
    /\ run = 1 /\ file.created_at = Now(other.run, 1)

====
